---- MODULE Spec2Model ----
(***************************************************************************)
(* Model of the rail construction user interface (src/src/rail_gui.cpp):   *)
(* the build-rail toolbar state machine, the placement-to-command          *)
(* translation, the command callbacks, the signal picker and the polyline  *)
(* terraform heuristic.                                                    *)
(*                                                                         *)
(* Handlers are sequential C++ code that call each other, so every handler *)
(* is an operator from a state record to a state record; an action reads   *)
(* the variables into a record (Cur), applies the handler and writes the   *)
(* result back (Commit).                                                   *)
(***************************************************************************)
EXTENDS Integers, Sequences, FiniteSets, TLC

VARIABLES
    tbOpen,                 \* a BuildRailToolbarWindow exists
    otherTb,                \* another WC_BUILD_TOOLBAR window (road, dock, air) exists
    lowered,                \* lowered widgets of the rail toolbar
    disabled,               \* disabled widgets of the rail toolbar
    last_user_action,       \* BuildRailToolbarWindow::last_user_action
    railtype,               \* BuildRailToolbarWindow::railtype
    _cur_railtype,
    _remove_button_clicked,
    _cm_invert_remove,
    thd_window,             \* _thd.window_class: owner of the object to place
    thd_sizing,             \* _thd.select_proc of the drag in progress
    windows,                \* open picker / query windows
    snap,                   \* rail snap mode (GetRailSnapMode)
    station_dragdrop,       \* _settings_client.gui.station_dragdrop
    blueprint,              \* citymania active blueprint present
    stationPlacement,       \* citymania pending station placement present
    _cur_signal_variant,
    _cur_signal_type,
    _convert_signal_button,
    sigLowered,             \* lowered signal buttons of the BuildSignalWindow
    drag_signals_density,   \* _settings_client.gui.drag_signals_density
    pending,                \* commands sent to the command engine, callback not yet run
    select_cmd,             \* command held by the station selection window
    _last_built_railtype,   \* rail type the global hotkeys open the toolbar with
    _build_depot_direction, \* currently selected depot direction
    depotLowered,           \* lowered direction buttons of the BuildRailDepotWindow
    _railstation,           \* orientation, class and type of the station to build
    station_numtracks,      \* _settings_client.gui.station_numtracks
    station_platlength,     \* _settings_client.gui.station_platlength
    stationLowered,         \* lowered buttons of the BuildRailStationWindow
    newgrf_stations,        \* station classes of NewGRFs are loaded
    ev                      \* what the last handler did (commands, sounds, resets ...)

vars == <<tbOpen, otherTb, lowered, disabled, last_user_action, railtype,
          _cur_railtype, _remove_button_clicked, _cm_invert_remove, thd_window,
          thd_sizing, windows, snap, station_dragdrop, blueprint,
          stationPlacement, _cur_signal_variant, _cur_signal_type,
          _convert_signal_button, sigLowered, drag_signals_density, pending,
          select_cmd, _last_built_railtype, _build_depot_direction, depotLowered,
          _railstation, station_numtracks, station_platlength, stationLowered,
          newgrf_stations, ev>>

(***************************************************************************)
(* Bounds of the model.                                                    *)
(***************************************************************************)
NumRailTypes == 2          \* valid rail types are 0 .. NumRailTypes-1
MapSizeX == 2              \* tiles are 0 .. MapSizeX*MapSizeX-1

RailTypes == 0 .. (NumRailTypes - 1)
INVALID_RAILTYPE == 255
Tiles == 0 .. (MapSizeX * MapSizeX - 1)
INVALID_TILE == 0 - 1
TileX(t) == t % MapSizeX
TileY(t) == t \div MapSizeX

(***************************************************************************)
(* Widgets of the rail toolbar (widgets/rail_widget.h, used by name).      *)
(***************************************************************************)
WID_RAT_CAPTION == "WID_RAT_CAPTION"
WID_RAT_BUILD_NS == "WID_RAT_BUILD_NS"
WID_RAT_BUILD_X == "WID_RAT_BUILD_X"
WID_RAT_BUILD_EW == "WID_RAT_BUILD_EW"
WID_RAT_BUILD_Y == "WID_RAT_BUILD_Y"
WID_RAT_AUTORAIL == "WID_RAT_AUTORAIL"
WID_RAT_POLYRAIL == "WID_RAT_POLYRAIL"
WID_RAT_DEMOLISH == "WID_RAT_DEMOLISH"
WID_RAT_BUILD_DEPOT == "WID_RAT_BUILD_DEPOT"
WID_RAT_BUILD_WAYPOINT == "WID_RAT_BUILD_WAYPOINT"
WID_RAT_BUILD_STATION == "WID_RAT_BUILD_STATION"
WID_RAT_BUILD_SIGNALS == "WID_RAT_BUILD_SIGNALS"
WID_RAT_BUILD_BRIDGE == "WID_RAT_BUILD_BRIDGE"
WID_RAT_BUILD_TUNNEL == "WID_RAT_BUILD_TUNNEL"
WID_RAT_REMOVE == "WID_RAT_REMOVE"
WID_RAT_CONVERT_RAIL == "WID_RAT_CONVERT_RAIL"
CM_WID_RAT_BLUEPRINT == "CM_WID_RAT_BLUEPRINT"
CM_WID_RAT_BLUEPRINT_PLACE == "CM_WID_RAT_BLUEPRINT_PLACE"
WIDGET_LIST_END == "WIDGET_LIST_END"

HOTKEY_POLYRAIL == "HOTKEY_POLYRAIL"
HOTKEY_NEW_POLYRAIL == "HOTKEY_NEW_POLYRAIL"
HOTKEY_BLUEPRINT_ROTATE == "HOTKEY_BLUEPRINT_ROTATE"
HOTKEY_BUILD_STATION_SIZED == "HOTKEY_BUILD_STATION_SIZED"
HOTKEY_BUILD_STATION_DRAGDROP == "HOTKEY_BUILD_STATION_DRAGDROP"

\* The fifteen tool buttons of the toolbar.
ToolWidgets ==
    {WID_RAT_BUILD_NS, WID_RAT_BUILD_X, WID_RAT_BUILD_EW, WID_RAT_BUILD_Y,
     WID_RAT_AUTORAIL, WID_RAT_POLYRAIL, WID_RAT_DEMOLISH, WID_RAT_BUILD_DEPOT,
     WID_RAT_BUILD_WAYPOINT, WID_RAT_BUILD_STATION, WID_RAT_BUILD_SIGNALS,
     WID_RAT_BUILD_BRIDGE, WID_RAT_BUILD_TUNNEL, CM_WID_RAT_BLUEPRINT,
     WID_RAT_CONVERT_RAIL}

\* Every button of the toolbar a click can land on.
ClickWidgets == ToolWidgets \cup {WID_RAT_REMOVE, WID_RAT_CAPTION}

\* Hotkey values of railtoolbar_hotkeys.
Hotkeys ==
    (ToolWidgets \ {WID_RAT_POLYRAIL}) \cup
                     {WID_RAT_REMOVE, HOTKEY_POLYRAIL, HOTKEY_NEW_POLYRAIL,
                      HOTKEY_BUILD_STATION_SIZED, HOTKEY_BUILD_STATION_DRAGDROP,
                      HOTKEY_BLUEPRINT_ROTATE}

\* Tools for which the remove button is available (UpdateRemoveWidgetStatus).
RemovableTools ==
    {WID_RAT_BUILD_NS, WID_RAT_BUILD_X, WID_RAT_BUILD_EW, WID_RAT_BUILD_Y,
     WID_RAT_AUTORAIL, WID_RAT_POLYRAIL, WID_RAT_BUILD_WAYPOINT,
     WID_RAT_BUILD_STATION, WID_RAT_BUILD_SIGNALS}

(***************************************************************************)
(* Window classes.                                                         *)
(***************************************************************************)
WC_INVALID == "WC_INVALID"
WC_MAIN_WINDOW == "WC_MAIN_WINDOW"
WC_BUILD_TOOLBAR == "WC_BUILD_TOOLBAR"
WC_OTHER == "WC_OTHER"                     \* any window that is not the rail toolbar
WC_BUILD_SIGNAL == "WC_BUILD_SIGNAL"
WC_BUILD_STATION == "WC_BUILD_STATION"
WC_BUILD_DEPOT == "WC_BUILD_DEPOT"
WC_BUILD_WAYPOINT == "WC_BUILD_WAYPOINT"
WC_SELECT_STATION == "WC_SELECT_STATION"
WC_BUILD_BRIDGE == "WC_BUILD_BRIDGE"

PickerWindows == {WC_BUILD_SIGNAL, WC_BUILD_STATION, WC_BUILD_DEPOT, WC_BUILD_WAYPOINT}
AuxWindows == PickerWindows \cup {WC_SELECT_STATION, WC_BUILD_BRIDGE}

DIAGDIR_NE == 0
DIAGDIR_SE == 1
DIAGDIR_SW == 2
DIAGDIR_NW == 3
DiagDirs == DIAGDIR_NE .. DIAGDIR_NW

DIAGDIR_END == 4
\* "(DiagDirection)(DIAGDIR_NW + 1)": the depot direction is found from the map.
DEPOTDIR_AUTO == DIAGDIR_NW + 1
DepotDirs == DIAGDIR_NE .. DEPOTDIR_AUTO

\* The direction buttons of the depot picker, numbered from the first one.
WID_BRAD_DEPOT_NE == 0
WID_BRAD_DEPOT_SE == WID_BRAD_DEPOT_NE + 1
WID_BRAD_DEPOT_SW == WID_BRAD_DEPOT_NE + 2
WID_BRAD_DEPOT_NW == WID_BRAD_DEPOT_NE + 3
WID_BRAD_DEPOT_AUTO == WID_BRAD_DEPOT_NE + 4
DepotButtons == WID_BRAD_DEPOT_NE .. WID_BRAD_DEPOT_AUTO
\* A widget of the depot picker that is no direction button.
WID_BRAD_CAPTION == WID_BRAD_DEPOT_NE - 1

RSM_NO_SNAP == "RSM_NO_SNAP"
RSM_SNAP_TO_RAIL == "RSM_SNAP_TO_RAIL"

(***************************************************************************)
(* Drag-and-drop selection processes.                                      *)
(***************************************************************************)
DDSP_NONE == "DDSP_NONE"
DDSP_PLACE_RAIL == "DDSP_PLACE_RAIL"
DDSP_BUILD_SIGNALS == "DDSP_BUILD_SIGNALS"
DDSP_BUILD_STATION == "DDSP_BUILD_STATION"
DDSP_BUILD_BRIDGE == "DDSP_BUILD_BRIDGE"
DDSP_DEMOLISH_AREA == "DDSP_DEMOLISH_AREA"
DDSP_CONVERT_RAIL == "DDSP_CONVERT_RAIL"
CM_DDSP_BLUEPRINT_AREA == "CM_DDSP_BLUEPRINT_AREA"

(***************************************************************************)
(* Signals.                                                                *)
(***************************************************************************)
SIG_ELECTRIC == 0
SIG_SEMAPHORE == 1
SIGTYPE_NORMAL == 0
SIGTYPE_PBS == 4
SIGTYPE_PBS_ONEWAY == 5
SIGTYPE_LAST == SIGTYPE_PBS_ONEWAY
SIGTYPE_END == SIGTYPE_LAST + 1
\* Signal buttons, numbered from WID_BS_SEMAPHORE_NORM: the six semaphore
\* buttons come first, then the six electric ones.
WID_BS_SEMAPHORE_NORM == 0
WID_BS_ELECTRIC_NORM == WID_BS_SEMAPHORE_NORM + SIGTYPE_END
WID_BS_ELECTRIC_PBS_OWAY == WID_BS_ELECTRIC_NORM + SIGTYPE_LAST
SignalButtons == WID_BS_SEMAPHORE_NORM .. WID_BS_ELECTRIC_PBS_OWAY
WID_BS_CONVERT == WID_BS_ELECTRIC_PBS_OWAY + 1
WID_BS_DRAG_SIGNALS_DENSITY_DECREASE == WID_BS_CONVERT + 2
WID_BS_DRAG_SIGNALS_DENSITY_INCREASE == WID_BS_CONVERT + 3
MinDensity == 1
MaxDensity == 20

(***************************************************************************)
(* Commands.  A command container is the record the GUI hands to the       *)
(* command engine: opcode, callback, tile and the two parameters; then is  *)
(* the extra completion callback of citymania::DoCommandWithCallback.      *)
(***************************************************************************)
NoThen == <<>>
Cmd(cmd, cb, tile, p1, p2) ==
    [cmd |-> cmd, cb |-> cb, tile |-> tile, p1 |-> p1, p2 |-> p2, then |-> NoThen]
NoCmd == Cmd("none", "none", 0, 0, 0)

(***************************************************************************)
(* What a handler did: reset at the start of every event.  fn_mod is the   *)
(* modifier key a toolbar click came with, tail whether OnClick reached    *)
(* its end (the remove flags and the remove button), list the drop down    *)
(* list GetRailTypeDropDownList returned, in the input of a mouse-up or    *)
(* of a callback.                                                          *)
(***************************************************************************)
NoEndpoints == <<>>
\* The toolbar as OnPlaceObjectAbort found it (before) and left it (after).
NoAbort == [done |-> FALSE,
            before |-> [tool |-> FALSE, windows |-> {}, blueprint |-> FALSE,
                        stationPlacement |-> FALSE],
            after |-> [lowered |-> {}, disabled |-> {}, windows |-> {}, blueprint |-> FALSE,
                       stationPlacement |-> FALSE]]
\* The test runs of DoAutodirTerraform and its two level commands.
NoLevels == [ran |-> FALSE, l1_ok |-> FALSE, l2_ok |-> FALSE, c1 |-> NoCmd, c2 |-> NoCmd]
\* The command callback that ran: its name, its command and the result it got.
NoCallback == [name |-> "none", c |-> NoCmd, ok |-> FALSE, endtile |-> 0]
NoEv == [reset |-> FALSE, sound |-> FALSE, red |-> INVALID_TILE,
         stored |-> NoEndpoints, submitted |-> <<>>, rail |-> 0, ret |-> "none",
         abort |-> NoAbort, levels |-> NoLevels, cb |-> NoCallback,
         fn_mod |-> FALSE, tail |-> FALSE, list |-> <<>>, in |-> <<>>,
         handler |-> "none", arg |-> "none"]

(***************************************************************************)
(* State record <-> variables.                                             *)
(***************************************************************************)
Cur ==
    [tbOpen |-> tbOpen, otherTb |-> otherTb, lowered |-> lowered,
     disabled |-> disabled, last_user_action |-> last_user_action,
     railtype |-> railtype, _cur_railtype |-> _cur_railtype,
     _remove_button_clicked |-> _remove_button_clicked,
     _cm_invert_remove |-> _cm_invert_remove, thd_window |-> thd_window,
     thd_sizing |-> thd_sizing, windows |-> windows, snap |-> snap,
     station_dragdrop |-> station_dragdrop, blueprint |-> blueprint,
     stationPlacement |-> stationPlacement,
     _cur_signal_variant |-> _cur_signal_variant,
     _cur_signal_type |-> _cur_signal_type,
     _convert_signal_button |-> _convert_signal_button,
     sigLowered |-> sigLowered, drag_signals_density |-> drag_signals_density,
     pending |-> pending, select_cmd |-> select_cmd,
     _last_built_railtype |-> _last_built_railtype,
     _build_depot_direction |-> _build_depot_direction,
     depotLowered |-> depotLowered, _railstation |-> _railstation,
     station_numtracks |-> station_numtracks,
     station_platlength |-> station_platlength,
     stationLowered |-> stationLowered, newgrf_stations |-> newgrf_stations,
     ev |-> NoEv]

Commit(s) ==
    /\ tbOpen' = s.tbOpen
    /\ otherTb' = s.otherTb
    /\ lowered' = s.lowered
    /\ disabled' = s.disabled
    /\ last_user_action' = s.last_user_action
    /\ railtype' = s.railtype
    /\ _cur_railtype' = s._cur_railtype
    /\ _remove_button_clicked' = s._remove_button_clicked
    /\ _cm_invert_remove' = s._cm_invert_remove
    /\ thd_window' = s.thd_window
    /\ thd_sizing' = s.thd_sizing
    /\ windows' = s.windows
    /\ snap' = s.snap
    /\ station_dragdrop' = s.station_dragdrop
    /\ blueprint' = s.blueprint
    /\ stationPlacement' = s.stationPlacement
    /\ _cur_signal_variant' = s._cur_signal_variant
    /\ _cur_signal_type' = s._cur_signal_type
    /\ _convert_signal_button' = s._convert_signal_button
    /\ sigLowered' = s.sigLowered
    /\ drag_signals_density' = s.drag_signals_density
    /\ pending' = s.pending
    /\ select_cmd' = s.select_cmd
    /\ _last_built_railtype' = s._last_built_railtype
    /\ _build_depot_direction' = s._build_depot_direction
    /\ depotLowered' = s.depotLowered
    /\ _railstation' = s._railstation
    /\ station_numtracks' = s.station_numtracks
    /\ station_platlength' = s.station_platlength
    /\ stationLowered' = s.stationLowered
    /\ newgrf_stations' = s.newgrf_stations
    /\ ev' = s.ev

(***************************************************************************)
(* Widget framework (window.cpp): lowered / disabled state of the widgets  *)
(* of the rail toolbar.                                                    *)
(***************************************************************************)
IsWidgetLowered(s, w) == w \in s.lowered
IsWidgetDisabled(s, w) == w \in s.disabled
LowerWidget(s, w) == [s EXCEPT !.lowered = @ \cup {w}]
RaiseWidget(s, w) == [s EXCEPT !.lowered = @ \ {w}]
SetWidgetLoweredState(s, w, b) == IF b THEN LowerWidget(s, w) ELSE RaiseWidget(s, w)
ToggleWidgetLoweredState(s, w) == SetWidgetLoweredState(s, w, ~IsWidgetLowered(s, w))
DisableWidget(s, w) == [s EXCEPT !.disabled = @ \cup {w}]
EnableWidget(s, w) == [s EXCEPT !.disabled = @ \ {w}]
SetWidgetDisabledState(s, w, b) == IF b THEN DisableWidget(s, w) ELSE EnableWidget(s, w)
\* Window::RaiseButtons raises every lowered button of the window.
RaiseButtons(s) == [s EXCEPT !.lowered = {}]

(***************************************************************************)
(* Object placement and window closing.  Closing a picker resets the       *)
(* object to place, resetting the object to place aborts the placement of  *)
(* the window that owns it, and the abort of the rail toolbar closes its   *)
(* pickers: the four operators are mutually recursive as in the code.      *)
(***************************************************************************)
RECURSIVE SetObjectToPlace(_, _)
RECURSIVE ResetObjectToPlace(_)
RECURSIVE CloseWindowById(_, _)
RECURSIVE OnPlaceObjectAbort(_)

\* A window leaves the window list; a picker (PickerWindowBase::Close) resets
\* the object to place, BuildSignalWindow::Close clears the convert button and
\* BuildRailStationWindow::Close closes the station selection first.
CloseWindowById(s, wc) ==
    IF wc \notin s.windows THEN s
    ELSE LET gone == [s EXCEPT !.windows = @ \ {wc}]
         IN CASE wc = WC_BUILD_SIGNAL ->
                    ResetObjectToPlace([gone EXCEPT !._convert_signal_button = FALSE,
                                                    !.sigLowered = {}])
              [] wc = WC_BUILD_STATION ->
                    ResetObjectToPlace(
                        CloseWindowById([gone EXCEPT !.stationLowered = {}],
                                        WC_SELECT_STATION))
              [] wc = WC_BUILD_DEPOT ->
                    ResetObjectToPlace([gone EXCEPT !.depotLowered = {}])
              [] wc = WC_BUILD_WAYPOINT -> ResetObjectToPlace(gone)
              [] wc = WC_SELECT_STATION -> [gone EXCEPT !.select_cmd = NoCmd]
              [] OTHER -> gone

\* The log of an abort that found the toolbar as in s and left it as in t.
AbortLog(s, t) ==
    [t EXCEPT !.ev.abort =
        [done |-> TRUE,
         before |-> [tool |-> (s.lowered \cap ToolWidgets # {}), windows |-> s.windows,
                     blueprint |-> s.blueprint, stationPlacement |-> s.stationPlacement],
         after |-> [lowered |-> t.lowered, disabled |-> t.disabled,
                    windows |-> t.windows, blueprint |-> t.blueprint,
                    stationPlacement |-> t.stationPlacement]]]

\* OnPlaceObjectAbort without the call that closes the bridge window.
OnPlaceObjectAbort_KeepBridge(s) ==
    AbortLog(s,
        [CloseWindowById(CloseWindowById(CloseWindowById(CloseWindowById(CloseWindowById(
            DisableWidget(RaiseButtons(s), WID_RAT_REMOVE),
            WC_BUILD_SIGNAL), WC_BUILD_STATION), WC_BUILD_DEPOT), WC_BUILD_WAYPOINT),
            WC_SELECT_STATION)
         EXCEPT !.stationPlacement = FALSE, !.blueprint = FALSE])

\* BuildRailToolbarWindow::OnPlaceObjectAbort
OnPlaceObjectAbort(s) ==
    AbortLog(s,
        [CloseWindowById(CloseWindowById(CloseWindowById(CloseWindowById(CloseWindowById(
         CloseWindowById(
            DisableWidget(RaiseButtons(s), WID_RAT_REMOVE),
            WC_BUILD_SIGNAL), WC_BUILD_STATION), WC_BUILD_DEPOT), WC_BUILD_WAYPOINT),
            WC_SELECT_STATION), WC_BUILD_BRIDGE)
         EXCEPT !.stationPlacement = FALSE, !.blueprint = FALSE])

\* viewport.cpp: the window that owned the placement is told to abort, with
\* the owner set to WC_INVALID during the call; then the new owner is stored
\* and a drag in progress is dropped.
SetObjectToPlace(s, wc) ==
    [(IF s.thd_window = WC_BUILD_TOOLBAR /\ s.tbOpen
      THEN OnPlaceObjectAbort([s EXCEPT !.thd_window = WC_INVALID])
      ELSE s)
     EXCEPT !.thd_window = wc, !.thd_sizing = DDSP_NONE]

ResetObjectToPlace(s) ==
    [SetObjectToPlace(s, WC_MAIN_WINDOW) EXCEPT !.ev.reset = TRUE]

\* if (cond) ResetObjectToPlace();
ResetObjectToPlaceIf(cond, s) == IF cond THEN ResetObjectToPlace(s) ELSE s

\* main_gui.cpp
HandlePlacePushButton(s, widget) ==
    IF IsWidgetDisabled(s, widget) THEN [st |-> s, ret |-> FALSE]
    ELSE IF IsWidgetLowered(s, widget)
         THEN [st |-> ResetObjectToPlace(s), ret |-> FALSE]
         ELSE [st |-> LowerWidget(SetObjectToPlace(s, WC_BUILD_TOOLBAR), widget),
               ret |-> TRUE]

\* Opening a picker window of the toolbar.
\* new BuildRailDepotWindow: the button of the selected direction is lowered.
ShowBuildTrainDepotPicker(s) ==
    [s EXCEPT !.windows = @ \cup {WC_BUILD_DEPOT},
              !.depotLowered = {s._build_depot_direction + WID_BRAD_DEPOT_NE}]
ShowBuildWaypointPicker(s) == [s EXCEPT !.windows = @ \cup {WC_BUILD_WAYPOINT}]
(***************************************************************************)
(* Station classes and the construction of the station picker.  A station  *)
(* spec carries two bit masks: bit n-1 set disallows n tracks or a         *)
(* platform length of n.  The default station has no spec.                 *)
(***************************************************************************)
AXIS_X == 0
AXIS_Y == 1
STAT_CLASS_DFLT == 0
STAT_CLASS_WAYP == 1
UINT8_MAX == 255
\* "statspec == nullptr": the default station has no spec.
nullptr == [null |-> TRUE, disallowed_platforms |-> 0, disallowed_lengths |-> 0]
HasBit(x, y) == (x \div (2 ^ y)) % 2 = 1
Min(a, b) == IF a < b THEN a ELSE b

\* The buttons of the station picker, numbered from the first one.
WID_BRAS_PLATFORM_DIR_X == 0
WID_BRAS_PLATFORM_DIR_Y == WID_BRAS_PLATFORM_DIR_X + 1
WID_BRAS_PLATFORM_NUM_1 == WID_BRAS_PLATFORM_DIR_X + 2
WID_BRAS_PLATFORM_NUM_BEGIN == WID_BRAS_PLATFORM_NUM_1 - 1
WID_BRAS_PLATFORM_NUM_7 == WID_BRAS_PLATFORM_NUM_BEGIN + 7
WID_BRAS_PLATFORM_LEN_1 == WID_BRAS_PLATFORM_NUM_7 + 1
WID_BRAS_PLATFORM_LEN_BEGIN == WID_BRAS_PLATFORM_LEN_1 - 1
WID_BRAS_PLATFORM_LEN_7 == WID_BRAS_PLATFORM_LEN_BEGIN + 7
WID_BRAS_PLATFORM_DRAG_N_DROP == WID_BRAS_PLATFORM_LEN_7 + 1
DirButtons == {WID_BRAS_PLATFORM_DIR_X, WID_BRAS_PLATFORM_DIR_Y}
NumButtons == WID_BRAS_PLATFORM_NUM_1 .. WID_BRAS_PLATFORM_NUM_7
LenButtons == WID_BRAS_PLATFORM_LEN_1 .. WID_BRAS_PLATFORM_LEN_7

\* The station specs of each class when station NewGRFs are loaded: a class
\* whose first station takes any size, whose second one takes eight or more
\* tracks only and whose third one takes no platform length at all, and a
\* class of one station of a single track and a length of seven.
StationSpec(disallowed_platforms, disallowed_lengths) ==
    [null |-> FALSE, disallowed_platforms |-> disallowed_platforms,
     disallowed_lengths |-> disallowed_lengths]
CustomStations ==
    (STAT_CLASS_DFLT :> <<nullptr>>) @@ (STAT_CLASS_WAYP :> <<nullptr>>)
    @@ (2 :> <<StationSpec(0, 0), StationSpec(127, 2), StationSpec(1, 255)>>)
    @@ (3 :> <<StationSpec(126, 63)>>)
\* StationClass: what the classes hold in a game with or without NewGRFs.
StationClass(s) ==
    IF s.newgrf_stations THEN CustomStations
    ELSE (STAT_CLASS_DFLT :> <<nullptr>>) @@ (STAT_CLASS_WAYP :> <<nullptr>>)
GetClassCount(s) == Cardinality(DOMAIN StationClass(s))
GetSpecCount(s, station_class) == Len(StationClass(s)[station_class])
GetSpec(s, station_class, station_type) == StationClass(s)[station_class][station_type + 1]

\* "_railstation.newstations ? StationClass::Get(...)->GetSpec(...) : nullptr"
CurStatSpec(s) ==
    IF s._railstation.newstations
    THEN GetSpec(s, s._railstation.station_class, s._railstation.station_type)
    ELSE nullptr

\* The buttons the constructor of BuildRailStationWindow lowers.
BuildRailStationWindow_Lowered(s) ==
    {s._railstation.orientation + WID_BRAS_PLATFORM_DIR_X} \cup
    (IF s.station_dragdrop THEN {WID_BRAS_PLATFORM_DRAG_N_DROP}
     ELSE {s.station_numtracks + WID_BRAS_PLATFORM_NUM_BEGIN,
           s.station_platlength + WID_BRAS_PLATFORM_LEN_BEGIN})

\* SelectClassAndStation: a class that is not there any more gives way to
\* the default class.
SelectClassAndStation(s) ==
    IF s._railstation.station_class \in DOMAIN StationClass(s)
    THEN s._railstation.station_class
    ELSE STAT_CLASS_DFLT

\* new BuildRailStationWindow(desc, parent, newstation)
BuildRailStationWindow(s, newstation) ==
    [s EXCEPT !.windows = @ \cup {WC_BUILD_STATION},
              !.stationLowered = BuildRailStationWindow_Lowered(s),
              !._railstation =
                  IF ~newstation
                  THEN [s._railstation EXCEPT !.newstations = FALSE,
                                              !.station_class = STAT_CLASS_DFLT,
                                              !.station_type = 0]
                  ELSE [s._railstation EXCEPT
                           !.newstations = TRUE,
                           !.station_class = SelectClassAndStation(s),
                           !.station_count = GetSpecCount(s, SelectClassAndStation(s)),
                           !.station_type =
                               Min(s._railstation.station_type,
                                   GetSpecCount(s, SelectClassAndStation(s)) - 1)]]

ShowStationBuilder(s) ==
    BuildRailStationWindow(s, GetClassCount(s) > 2
                                \/ GetSpecCount(s, STAT_CLASS_DFLT) # 1)

\* The signal button of the current variant and type.
CurSignalButton(s) ==
    (IF s._cur_signal_variant = SIG_ELECTRIC THEN WID_BS_ELECTRIC_NORM
                                             ELSE WID_BS_SEMAPHORE_NORM)
    + s._cur_signal_type

\* BuildSignalWindow::OnInvalidateData
BuildSignalWindow_OnInvalidateData(s) ==
    [s EXCEPT !.sigLowered = @ \cup {CurSignalButton(s)}]

\* ShowSignalBuilder: the constructor ends with OnInvalidateData.
ShowSignalBuilder(s) ==
    BuildSignalWindow_OnInvalidateData(
        [s EXCEPT !.windows = @ \cup {WC_BUILD_SIGNAL}, !.sigLowered = {}])

(***************************************************************************)
(* Remove button.                                                          *)
(***************************************************************************)
\* ToggleRailButton_Remove without the assignment to _remove_button_clicked.
ToggleRailButton_Remove_NoFlag(s) ==
    ToggleWidgetLoweredState(CloseWindowById(s, WC_SELECT_STATION), WID_RAT_REMOVE)

\* _remove_button_clicked = w->IsWidgetLowered(WID_RAT_REMOVE)
SetRemoveButtonClicked(s) ==
    [s EXCEPT !._remove_button_clicked = IsWidgetLowered(s, WID_RAT_REMOVE)]

ToggleRailButton_Remove(s) ==
    SetRemoveButtonClicked(
        ToggleWidgetLoweredState(CloseWindowById(s, WC_SELECT_STATION), WID_RAT_REMOVE))

BuildRailClick_Remove(s) ==
    IF IsWidgetDisabled(s, WID_RAT_REMOVE) THEN s
    ELSE ToggleRailButton_Remove(s)

\* citymania::RailToolbar_UpdateRemoveWidgetStatus: the remove button is
\* enabled, and shows remove_active, exactly while a rail, waypoint, station
\* or signal tool is lowered; otherwise it is raised and disabled.
RailToolbar_UpdateRemoveWidgetStatus(s, widget, remove_active) ==
    IF widget = WID_RAT_REMOVE THEN s
    ELSE IF widget \in RemovableTools /\ IsWidgetLowered(s, widget)
         THEN SetWidgetLoweredState(EnableWidget(s, WID_RAT_REMOVE),
                                    WID_RAT_REMOVE, remove_active)
         ELSE RaiseWidget(DisableWidget(s, WID_RAT_REMOVE), WID_RAT_REMOVE)

\* citymania::RailToolbar_RemoveModChanged: with the remove button enabled and
\* a tool lowered, the remove state the modifier key asks for, shown on the
\* remove button; inverted is RailToolbar_IsRemoveInverted of the lowered tool.
RailToolbar_RemoveModChanged(s, invert_remove, remove_active, inverted) ==
    IF IsWidgetDisabled(s, WID_RAT_REMOVE) THEN [st |-> s, ret |-> FALSE]
    ELSE IF s.lowered \cap RemovableTools = {} THEN [st |-> s, ret |-> remove_active]
    ELSE LET new_remove == (inverted # invert_remove)
         IN [st |-> SetWidgetLoweredState(s, WID_RAT_REMOVE, new_remove), ret |-> new_remove]

\* BuildRailToolbarWindow::CM_OnRemoveModStateChange
CM_OnRemoveModStateChange(s, inverted) ==
    LET r == RailToolbar_RemoveModChanged(s, s._cm_invert_remove, s._remove_button_clicked,
                                          inverted)
    IN IF r.ret # s._remove_button_clicked
       THEN [r.st EXCEPT !._remove_button_clicked = r.ret, !.ev.ret = "ES_HANDLED"]
       ELSE [r.st EXCEPT !.ev.ret = "ES_NOT_HANDLED"]

(***************************************************************************)
(* BuildRailToolbarWindow::OnClick.  in.fn_mod is citymania::_fn_mod,      *)
(* in.inverted the result of citymania::RailToolbar_IsRemoveInverted and   *)
(* in.waypoints whether more than one waypoint type exists.                *)
(***************************************************************************)
ClickInputs == [fn_mod : BOOLEAN, inverted : BOOLEAN, waypoints : BOOLEAN]

\* Buttons whose case is "HandlePlacePushButton; last_user_action = widget".
PlainTools ==
    {WID_RAT_BUILD_NS, WID_RAT_BUILD_X, WID_RAT_BUILD_EW, WID_RAT_BUILD_Y,
     WID_RAT_AUTORAIL, WID_RAT_DEMOLISH, WID_RAT_BUILD_BRIDGE,
     WID_RAT_BUILD_TUNNEL, CM_WID_RAT_BLUEPRINT, WID_RAT_CONVERT_RAIL}

\* A tool case that lowers its button without HandlePlacePushButton.
OnClick_Plain_NoPush(s, widget) ==
    [LowerWidget(s, widget) EXCEPT !.last_user_action = widget]

OnClick_Plain(s, widget) ==
    [HandlePlacePushButton(s, widget).st EXCEPT !.last_user_action = widget]

\* case WID_RAT_POLYRAIL: was_snap, was_open, do_snap and do_open of the case.
OnClick_Polyrail_was_snap(s) == s.snap = RSM_SNAP_TO_RAIL
OnClick_Polyrail_was_open(s) == IsWidgetLowered(s, WID_RAT_POLYRAIL)
\* do_snap of a case that does not look at the hotkey that brought the click.
OnClick_Polyrail_do_snap_NoHotkey(s, in) ==
    IF in.fn_mod THEN (~OnClick_Polyrail_was_open(s) \/ ~OnClick_Polyrail_was_snap(s))
    ELSE FALSE

OnClick_Polyrail_do_snap(s, in) ==
    IF s.last_user_action = HOTKEY_POLYRAIL THEN TRUE
    ELSE IF s.last_user_action = HOTKEY_NEW_POLYRAIL THEN FALSE
    ELSE IF in.fn_mod THEN (~OnClick_Polyrail_was_open(s) \/ ~OnClick_Polyrail_was_snap(s))
    ELSE FALSE
\* do_open of a case in which a plain click closes the tool in non-snapping
\* mode only.
OnClick_Polyrail_do_open_SnapStays(s, in) ==
    IF s.last_user_action = HOTKEY_POLYRAIL
    THEN (~OnClick_Polyrail_was_open(s) \/ ~OnClick_Polyrail_was_snap(s))
    ELSE IF s.last_user_action = HOTKEY_NEW_POLYRAIL
    THEN (~OnClick_Polyrail_was_open(s) \/ OnClick_Polyrail_was_snap(s))
    ELSE IF in.fn_mod THEN TRUE
    ELSE (~OnClick_Polyrail_was_open(s) \/ OnClick_Polyrail_was_snap(s))

OnClick_Polyrail_do_open(s, in) ==
    IF s.last_user_action = HOTKEY_POLYRAIL
    THEN (~OnClick_Polyrail_was_open(s) \/ ~OnClick_Polyrail_was_snap(s))
    ELSE IF s.last_user_action = HOTKEY_NEW_POLYRAIL
    THEN (~OnClick_Polyrail_was_open(s) \/ OnClick_Polyrail_was_snap(s))
    ELSE IF in.fn_mod THEN TRUE
    ELSE ~OnClick_Polyrail_was_open(s)
\* A polyrail case without the early return: the click always goes on to the
\* end of OnClick.
OnClick_Polyrail_early_Never(s, in) == FALSE

\* "if (was_open == do_open) return;": the case leaves OnClick early.
OnClick_Polyrail_early(s, in) ==
    OnClick_Polyrail_was_open(s) = OnClick_Polyrail_do_open(s, in)

OnClick_Polyrail(s, in) ==
    [(IF OnClick_Polyrail_was_open(s) # OnClick_Polyrail_do_open(s, in)
      THEN HandlePlacePushButton(s, WID_RAT_POLYRAIL).st ELSE s)
     EXCEPT !.snap = IF OnClick_Polyrail_do_open(s, in)
                     THEN (IF OnClick_Polyrail_do_snap(s, in) THEN RSM_SNAP_TO_RAIL
                                                              ELSE RSM_NO_SNAP)
                     ELSE @,
            !.last_user_action = WID_RAT_POLYRAIL]

\* h is the state after HandlePlacePushButton and its result.
OnClick_Depot_Pushed(h) ==
    IF h.ret
    THEN [ShowBuildTrainDepotPicker(h.st) EXCEPT !.last_user_action = WID_RAT_BUILD_DEPOT]
    ELSE h.st

OnClick_Depot(s) ==
    OnClick_Depot_Pushed(HandlePlacePushButton(s, WID_RAT_BUILD_DEPOT))

OnClick_Waypoint_Pushed(h, in) ==
    IF h.ret /\ in.waypoints THEN ShowBuildWaypointPicker(h.st) ELSE h.st

OnClick_Waypoint(s, in) ==
    OnClick_Waypoint_Pushed(
        HandlePlacePushButton([s EXCEPT !.last_user_action = WID_RAT_BUILD_WAYPOINT],
                              WID_RAT_BUILD_WAYPOINT), in)

\* The station button as a hotkey left it: h is the state after
\* HandlePlacePushButton and its result.
OnClick_Station_Pushed(h) == IF h.ret THEN ShowStationBuilder(h.st) ELSE h.st

\* The station hotkeys without the write of the station_dragdrop setting.
OnClick_Station_Hotkey_KeepMode(a, was_open, dragdrop) ==
    IF ~was_open \/ dragdrop # a.station_dragdrop
    THEN OnClick_Station_Pushed(HandlePlacePushButton(a, WID_RAT_BUILD_STATION))
    ELSE a

\* The station hotkeys: a is the state after the reset of an open tool.
OnClick_Station_Hotkey(a, was_open, dragdrop) ==
    IF ~was_open \/ dragdrop # a.station_dragdrop
    THEN OnClick_Station_Pushed(
            HandlePlacePushButton([a EXCEPT !.station_dragdrop = dragdrop],
                                  WID_RAT_BUILD_STATION))
    ELSE a

\* The station button clicked: h as above.
OnClick_Station_Clicked(h) ==
    IF h.ret
    THEN [ShowStationBuilder(h.st) EXCEPT !.last_user_action = WID_RAT_BUILD_STATION]
    ELSE h.st

OnClick_Station(s) ==
    LET dragdrop == s.last_user_action = HOTKEY_BUILD_STATION_DRAGDROP
        was_open == IsWidgetLowered(s, WID_RAT_BUILD_STATION)
    IN IF dragdrop \/ s.last_user_action = HOTKEY_BUILD_STATION_SIZED
       THEN [OnClick_Station_Hotkey(ResetObjectToPlaceIf(was_open, s), was_open, dragdrop)
                EXCEPT !.last_user_action = WID_RAT_BUILD_STATION]
       ELSE OnClick_Station_Clicked(HandlePlacePushButton(s, WID_RAT_BUILD_STATION))

OnClick_Signals_Pushed(h, in) ==
    IF h.ret # in.fn_mod THEN ShowSignalBuilder(h.st) ELSE h.st

OnClick_Signals(s, in) ==
    OnClick_Signals_Pushed(
        HandlePlacePushButton([s EXCEPT !.last_user_action = WID_RAT_BUILD_SIGNALS],
                              WID_RAT_BUILD_SIGNALS), in)

\* The end of OnClick without the is_hotkey test: a hotkey takes the inverted
\* remove state like a click does.
OnClick_Tail_NoHotkeyTest(s, is_hotkey, widget, in) ==
    LET a == IF widget # WID_RAT_REMOVE
             THEN [s EXCEPT !._cm_invert_remove = in.inverted,
                            !._remove_button_clicked = in.inverted,
                            !.ev.tail = TRUE]
             ELSE [s EXCEPT !.ev.tail = TRUE]
    IN RailToolbar_UpdateRemoveWidgetStatus(a, widget, a._remove_button_clicked)

\* The tail of OnClick: the remove flags and the remove button.
OnClick_Tail(s, is_hotkey, widget, in) ==
    LET a == IF widget # WID_RAT_REMOVE
             THEN [s EXCEPT !._cm_invert_remove = (~is_hotkey /\ in.inverted),
                            !._remove_button_clicked = (~is_hotkey /\ in.inverted),
                            !.ev.tail = TRUE]
             ELSE [s EXCEPT !.ev.tail = TRUE]
    IN RailToolbar_UpdateRemoveWidgetStatus(a, widget, a._remove_button_clicked)

OnClick(s, is_hotkey, widget, in) ==
    IF widget = WID_RAT_CAPTION THEN s
    ELSE IF widget = WID_RAT_POLYRAIL /\ OnClick_Polyrail_early(s, in)
    THEN OnClick_Polyrail(s, in)
    ELSE OnClick_Tail(
            CASE widget \in PlainTools -> OnClick_Plain(s, widget)
              [] widget = WID_RAT_POLYRAIL -> OnClick_Polyrail(s, in)
              [] widget = WID_RAT_BUILD_DEPOT -> OnClick_Depot(s)
              [] widget = WID_RAT_BUILD_WAYPOINT -> OnClick_Waypoint(s, in)
              [] widget = WID_RAT_BUILD_STATION -> OnClick_Station(s)
              [] widget = WID_RAT_BUILD_SIGNALS -> OnClick_Signals(s, in)
              [] widget = WID_RAT_REMOVE -> BuildRailClick_Remove(s),
            is_hotkey, widget, in)

\* Window::OnHotkey: a hotkey that names an enabled widget clicks it at (0,0).
Window_OnHotkey(s, hotkey, in) ==
    IF hotkey \notin (ToolWidgets \cup {WID_RAT_REMOVE}) \/ IsWidgetDisabled(s, hotkey)
    THEN s
    ELSE OnClick(s, TRUE, hotkey, in)

\* BuildRailToolbarWindow::OnHotkey
OnHotkey(s, hotkey, in) ==
    CASE hotkey \in {HOTKEY_POLYRAIL, HOTKEY_NEW_POLYRAIL} ->
            Window_OnHotkey([s EXCEPT !.last_user_action = hotkey], WID_RAT_POLYRAIL, in)
      [] hotkey \in {HOTKEY_BUILD_STATION_SIZED, HOTKEY_BUILD_STATION_DRAGDROP} ->
            Window_OnHotkey([s EXCEPT !.last_user_action = hotkey], WID_RAT_BUILD_STATION, in)
      [] OTHER -> Window_OnHotkey(s, hotkey, in)

(***************************************************************************)
(* Opening and closing the toolbar.                                        *)
(***************************************************************************)
\* Window::Close of the rail toolbar: the placement it owns is reset and its
\* child windows are closed.
BuildRailToolbarWindow_Close(s) ==
    [CloseWindowById(CloseWindowById(CloseWindowById(CloseWindowById(
        ResetObjectToPlaceIf(s.thd_window = WC_BUILD_TOOLBAR, s),
        WC_BUILD_SIGNAL), WC_BUILD_STATION), WC_BUILD_DEPOT), WC_BUILD_WAYPOINT)
     EXCEPT !.tbOpen = FALSE, !.lowered = {}, !.disabled = {},
            !.last_user_action = WIDGET_LIST_END]

\* CloseWindowByClass(WC_BUILD_TOOLBAR)
CloseBuildToolbars(s) ==
    [(IF s.tbOpen THEN BuildRailToolbarWindow_Close(s) ELSE s) EXCEPT !.otherTb = FALSE]

\* BuildRailToolbarWindow::BuildRailToolbarWindow
BuildRailToolbarWindow(s, rt) ==
    [DisableWidget([s EXCEPT !.tbOpen = TRUE, !.lowered = {}, !.disabled = {},
                             !.railtype = rt],
                   WID_RAT_REMOVE)
     EXCEPT !.last_user_action = WIDGET_LIST_END]

\* ShowBuildRailToolbar without the check of the rail type.
ShowBuildRailToolbar_NoCheck(s, rt, company_valid) ==
    IF ~company_valid THEN [s EXCEPT !.ev.ret = "nullptr"]
    ELSE [BuildRailToolbarWindow(
            [CloseBuildToolbars(s) EXCEPT !._cur_railtype = rt,
                                          !._remove_button_clicked = FALSE], rt)
          EXCEPT !.ev.ret = "window"]

\* ShowBuildRailToolbar; company_valid is Company::IsValidID(_local_company),
\* ValParamRailtype holds of the rail types that exist.
ShowBuildRailToolbar(s, rt, company_valid) ==
    IF ~company_valid THEN [s EXCEPT !.ev.ret = "nullptr"]
    ELSE IF rt \notin RailTypes THEN [s EXCEPT !.ev.ret = "nullptr"]
    ELSE [BuildRailToolbarWindow(
            [CloseBuildToolbars(s) EXCEPT !._cur_railtype = rt,
                                          !._remove_button_clicked = FALSE], rt)
          EXCEPT !.ev.ret = "window"]

(***************************************************************************)
(* Commands the handlers build.                                            *)
(***************************************************************************)

TRACK_X == 0
TRACK_Y == 1
TRACK_UPPER == 2
TRACK_LOWER == 3
TRACK_LEFT == 4
TRACK_RIGHT == 5
Tracks == TRACK_X .. TRACK_RIGHT

RemoveOpcodes ==
    {"CMD_REMOVE_SINGLE_RAIL", "CMD_REMOVE_RAILROAD_TRACK", "CMD_REMOVE_SIGNALS",
     "CMD_REMOVE_SIGNAL_TRACK", "CMD_REMOVE_FROM_RAIL_STATION",
     "CMD_REMOVE_FROM_RAIL_WAYPOINT"}
BuildOpcodes ==
    {"CMD_BUILD_SINGLE_RAIL", "CMD_BUILD_RAILROAD_TRACK", "CMD_BUILD_SIGNALS",
     "CMD_BUILD_SIGNAL_TRACK", "CMD_BUILD_RAIL_STATION", "CMD_BUILD_RAIL_WAYPOINT"}

\* The command engine takes note of a command handed to it: the handler's
\* log records it together with the remove flag and the lowered tools at that
\* moment and whether its test run let it through; an accepted command with
\* a callback stays in flight until it is resolved.
Submit(s, c, accepted) ==
    LET note == [c |-> c, remove |-> s._remove_button_clicked,
                 tools |-> s.lowered \cap ToolWidgets, accepted |-> accepted]
        a == [s EXCEPT !.ev.submitted = Append(@, note)]
    IN IF accepted /\ (c.cb # "none" \/ c.then # NoThen)
       THEN [a EXCEPT !.pending = Append(@, c)]
       ELSE a

\* CcPlaySound_CONSTRUCTION_RAIL
\* if (_settings_client.sound.confirm) SndPlayTileFx(...)
SndPlayTileFx(s, confirm) == IF confirm THEN [s EXCEPT !.ev.sound = TRUE] ELSE s

CcPlaySound_CONSTRUCTION_RAIL(s, ok, confirm) ==
    IF ok THEN SndPlayTileFx(s, confirm) ELSE s

GenericPlaceRailCmd(s, tile, cmd, ars) ==
    Cmd(IF s._remove_button_clicked THEN "CMD_REMOVE_SINGLE_RAIL"
                                    ELSE "CMD_BUILD_SINGLE_RAIL",
        "CcPlaySound_CONSTRUCTION_RAIL", tile, s._cur_railtype,
        cmd + (IF ars THEN 8 ELSE 0))

\* DoRailroadTrackCmd that ignores the remove flag.
DoRailroadTrackCmd_AlwaysBuild(s, start_tile, end_tile, track, ars) ==
    Cmd("CMD_BUILD_RAILROAD_TRACK", "CcPlaySound_CONSTRUCTION_RAIL", start_tile, end_tile,
        s._cur_railtype + track * 64 + (IF ars THEN 2048 ELSE 0))

DoRailroadTrackCmd(s, start_tile, end_tile, track, ars) ==
    Cmd(IF s._remove_button_clicked THEN "CMD_REMOVE_RAILROAD_TRACK"
                                    ELSE "CMD_BUILD_RAILROAD_TRACK",
        "CcPlaySound_CONSTRUCTION_RAIL", start_tile, end_tile,
        s._cur_railtype + track * 64 + (IF ars THEN 2048 ELSE 0))

(***************************************************************************)
(* Depot callback.                                                         *)
(***************************************************************************)
\* _place_depot_extra_track and _place_depot_extra_dir, indexed from 0.
_place_depot_extra_track ==
    <<TRACK_LEFT, TRACK_UPPER, TRACK_UPPER, TRACK_RIGHT,
      TRACK_X, TRACK_Y, TRACK_X, TRACK_Y,
      TRACK_LOWER, TRACK_LEFT, TRACK_RIGHT, TRACK_LOWER>>
_place_depot_extra_dir ==
    <<DIAGDIR_SE, DIAGDIR_SW, DIAGDIR_SE, DIAGDIR_SW,
      DIAGDIR_SW, DIAGDIR_NW, DIAGDIR_NE, DIAGDIR_SE,
      DIAGDIR_NW, DIAGDIR_NE, DIAGDIR_NW, DIAGDIR_NE>>

\* track_func.h: the tracks of a tile a vehicle entering in direction dir can use.
DiagdirReachesTracks(dir) ==
    CASE dir = DIAGDIR_NE -> {TRACK_X, TRACK_LOWER, TRACK_LEFT}
      [] dir = DIAGDIR_SE -> {TRACK_Y, TRACK_UPPER, TRACK_LEFT}
      [] dir = DIAGDIR_SW -> {TRACK_X, TRACK_UPPER, TRACK_RIGHT}
      [] dir = DIAGDIR_NW -> {TRACK_Y, TRACK_LOWER, TRACK_RIGHT}

RAIL_TILE_NORMAL == 0
RAIL_TILE_SIGNALS == 1
RAIL_TILE_DEPOT == 3
\* What the map holds on the tile in front of a depot.
MapTiles ==
    [railway : BOOLEAN, rail_tile_type : {RAIL_TILE_NORMAL, RAIL_TILE_SIGNALS, RAIL_TILE_DEPOT},
     trackbits : SUBSET Tracks]

\* map.h: the tile one step in direction dir, wrapping inside the model's map.
TileAddByDiagDir(tile, dir) ==
    LET dx == CASE dir = DIAGDIR_NE -> MapSizeX - 1 [] dir = DIAGDIR_SW -> 1 [] OTHER -> 0
        dy == CASE dir = DIAGDIR_NW -> MapSizeX - 1 [] dir = DIAGDIR_SE -> 1 [] OTHER -> 0
    IN ((TileX(tile) + dx) % MapSizeX) + MapSizeX * ((TileY(tile) + dy) % MapSizeX)

\* PlaceExtraDepotRail that builds over signals whatever auto_remove_signals says.
PlaceExtraDepotRail_OverSignals(s, tile, dir, track, m, ars) ==
    IF m.rail_tile_type = RAIL_TILE_DEPOT THEN s
    ELSE IF m.trackbits \cap DiagdirReachesTracks(dir) = {} THEN s
    ELSE Submit(s, Cmd("CMD_BUILD_SINGLE_RAIL", "none", tile, s._cur_railtype,
                       track + (IF ars THEN 8 ELSE 0)), TRUE)

PlaceExtraDepotRail(s, tile, dir, track, m, ars) ==
    IF m.rail_tile_type = RAIL_TILE_DEPOT THEN s
    ELSE IF m.rail_tile_type = RAIL_TILE_SIGNALS /\ ~ars THEN s
    ELSE IF m.trackbits \cap DiagdirReachesTracks(dir) = {} THEN s
    ELSE Submit(s, Cmd("CMD_BUILD_SINGLE_RAIL", "none", tile, s._cur_railtype,
                       track + (IF ars THEN 8 ELSE 0)), TRUE)

\* in: [ok, confirm, persistent, map, ars]
\* The three extra rails of CcRailDepot on the tile in front of the depot.
PlaceExtraDepotRails(s, tile, dir, in) ==
    PlaceExtraDepotRail(
        PlaceExtraDepotRail(
            PlaceExtraDepotRail(s, tile, _place_depot_extra_dir[dir + 1],
                                _place_depot_extra_track[dir + 1], in.map, in.ars),
            tile, _place_depot_extra_dir[dir + 5], _place_depot_extra_track[dir + 5],
            in.map, in.ars),
        tile, _place_depot_extra_dir[dir + 9], _place_depot_extra_track[dir + 9],
        in.map, in.ars)

\* The part of CcRailDepot after the sound and the reset of the tool.
CcRailDepot_Rails(s, c, in) ==
    IF in.map.railway
    THEN PlaceExtraDepotRails(s, TileAddByDiagDir(c.tile, c.p2), c.p2, in)
    ELSE s

CcRailDepot(s, c, in) ==
    IF ~in.ok THEN s
    ELSE CcRailDepot_Rails(
            ResetObjectToPlaceIf(~in.persistent, SndPlayTileFx(s, in.confirm)), c, in)

(***************************************************************************)
(* Station and tunnel callbacks.                                           *)
(***************************************************************************)
\* CcStation that does not look at the selected station type.
CcStation_AnyType(s, in) ==
    IF ~in.ok THEN s
    ELSE ResetObjectToPlaceIf(
            in.station_class = STAT_CLASS_DFLT /\ ~in.persistent,
            SndPlayTileFx(s, in.confirm))

\* in: [ok, confirm, persistent, station_class, station_type]
CcStation(s, in) ==
    IF ~in.ok THEN s
    ELSE ResetObjectToPlaceIf(
            in.station_class = STAT_CLASS_DFLT /\ in.station_type = 0 /\ ~in.persistent,
            SndPlayTileFx(s, in.confirm))

StoreRailPlacementEndpoints(s, start_tile, end_tile, track, bidirectional) ==
    [s EXCEPT !.ev.stored = <<start_tile, end_tile, track, bidirectional>>]

SetRedErrorSquare(s, tile) == [s EXCEPT !.ev.red = tile]

\* CcBuildRailTunnel with the two tracks exchanged.
CcBuildRailTunnel_SwapTrack(s, c, in) ==
    IF in.ok
    THEN StoreRailPlacementEndpoints(
            ResetObjectToPlaceIf(~in.persistent, SndPlayTileFx(s, in.confirm)),
            c.tile, in.endtile,
            IF TileX(c.tile) = TileX(in.endtile) THEN TRACK_X ELSE TRACK_Y, FALSE)
    ELSE SetRedErrorSquare(s, in.endtile)

\* in: [ok, confirm, persistent, endtile]; endtile is _build_tunnel_endtile
CcBuildRailTunnel(s, c, in) ==
    IF in.ok
    THEN StoreRailPlacementEndpoints(
            ResetObjectToPlaceIf(~in.persistent, SndPlayTileFx(s, in.confirm)),
            c.tile, in.endtile,
            IF TileX(c.tile) = TileX(in.endtile) THEN TRACK_Y ELSE TRACK_X, FALSE)
    ELSE SetRedErrorSquare(s, in.endtile)

(***************************************************************************)
(* DoCommandP: the command is test-run first.  When the test run fails the *)
(* callback runs at once with the failure and DoCommandP returns false;    *)
(* otherwise the command is sent and its callback runs when the engine     *)
(* resolves it.  FailIn is the callback input of a failed command.         *)
(***************************************************************************)
FailIn(endtile) ==
    [ok |-> FALSE, confirm |-> FALSE, persistent |-> FALSE, endtile |-> endtile,
     station_class |-> STAT_CLASS_DFLT, station_type |-> 0, ars |-> FALSE,
     map |-> [railway |-> FALSE, rail_tile_type |-> RAIL_TILE_NORMAL, trackbits |-> {}]]

\* The callback named by a command container.
RunCallback(s, c, in) ==
    LET a == IF c.cb = "none" THEN s
             ELSE [s EXCEPT !.ev.cb = [name |-> c.cb, c |-> c, ok |-> in.ok,
                                       endtile |-> in.endtile]]
    IN CASE c.cb = "CcPlaySound_CONSTRUCTION_RAIL" ->
                CcPlaySound_CONSTRUCTION_RAIL(a, in.ok, in.confirm)
         [] c.cb = "CcRailDepot" -> CcRailDepot(a, c, in)
         [] c.cb = "CcStation" -> CcStation(a, in)
         [] c.cb = "CcBuildRailTunnel" -> CcBuildRailTunnel(a, c, in)
         [] OTHER -> a

DoCommandP(s, c, accepted, endtile) ==
    IF accepted THEN [st |-> Submit(s, c, TRUE), ret |-> TRUE]
    ELSE [st |-> RunCallback(Submit(s, c, FALSE), c, FailIn(endtile)), ret |-> FALSE]

(***************************************************************************)
(* Polyline terraform placement.                                           *)
(***************************************************************************)
LM_LEVEL == 0
LM_RAISE == 2

\* The lambda rail_callback of DoAutodirTerraform; k is its capture
\* [rail_cmd, start_tile, end_tile, track, estimate] and in the outcome of the
\* rail command: [already_built, endtile, accepted].
\* The end of rail_callback: d is the state after the rail command and
\* whether it went through.
rail_callback_Store(d, k, res, in) ==
    IF ~d.ret THEN [st |-> d.st, ret |-> FALSE]
    ELSE IF ~k.estimate /\ in.endtile # INVALID_TILE
         THEN [st |-> StoreRailPlacementEndpoints(d.st, k.start_tile, in.endtile, k.track, TRUE),
               ret |-> res]
         ELSE [st |-> d.st, ret |-> res]

rail_callback(s, k, res, in) ==
    rail_callback_Store(
        IF ~in.already_built \/ in.endtile = INVALID_TILE
        THEN DoCommandP([s EXCEPT !.ev.rail = @ + 1], k.rail_cmd, in.accepted, 0)
        ELSE [st |-> [s EXCEPT !.ev.rail = @ + 1], ret |-> TRUE],
        k, res, in)

\* citymania::DoCommandWithCallback: DoCommandP whose completion also runs
\* the given callback with the command's success.
DoCommandWithCallback(s, c, k, accepted, in) ==
    IF accepted THEN [st |-> Submit(s, [c EXCEPT !.then = k], TRUE), ret |-> TRUE]
    ELSE rail_callback(RunCallback(Submit(s, [c EXCEPT !.then = k], FALSE), c, FailIn(0)),
                       k, FALSE, in)

\* DoAutodirTerraform that chains the rail placement to the level command of
\* corner 1 when both test runs succeed.
DoAutodirTerraform_ChainFirst(s, diagonal, start_tile, end_tile, track, rail_cmd, s1, e1, s2, e2, in) ==
    LET k == [rail_cmd |-> rail_cmd, start_tile |-> start_tile, end_tile |-> end_tile,
              track |-> track, estimate |-> in.estimate]
        diag_flag == IF diagonal THEN 1 ELSE 0
        p2_1 == (IF in.h1 < in.h2 THEN LM_RAISE ELSE LM_LEVEL) * 2 + diag_flag
        p2_2 == (IF in.h2 < in.h1 THEN LM_RAISE ELSE LM_LEVEL) * 2 + diag_flag
        c1 == Cmd("CMD_LEVEL_LAND", "CcTerraform", e1, s1, p2_1)
        c2 == Cmd("CMD_LEVEL_LAND", "CcTerraform", e2, s2, p2_2)
        t == [s EXCEPT !.ev.levels = [ran |-> TRUE, l1_ok |-> in.l1_ok, l2_ok |-> in.l2_ok,
                                      c1 |-> c1, c2 |-> c2]]
    IN IF ~in.l1_ok /\ ~in.l2_ok THEN rail_callback(t, k, TRUE, in.rail)
       ELSE IF ~in.l2_ok THEN DoCommandWithCallback(t, c1, k, in.accept1, in.rail)
       ELSE IF ~in.l1_ok THEN DoCommandWithCallback(t, c2, k, in.accept2, in.rail)
       ELSE DoCommandP(DoCommandWithCallback(t, c1, k, in.accept1, in.rail).st,
                       c2, in.accept2, 0)

\* DoAutodirTerraform without the case "both test runs failed".
DoAutodirTerraform_NoBothFail(s, diagonal, start_tile, end_tile, track, rail_cmd, s1, e1, s2, e2, in) ==
    LET k == [rail_cmd |-> rail_cmd, start_tile |-> start_tile, end_tile |-> end_tile,
              track |-> track, estimate |-> in.estimate]
        diag_flag == IF diagonal THEN 1 ELSE 0
        p2_1 == (IF in.h1 < in.h2 THEN LM_RAISE ELSE LM_LEVEL) * 2 + diag_flag
        p2_2 == (IF in.h2 < in.h1 THEN LM_RAISE ELSE LM_LEVEL) * 2 + diag_flag
        c1 == Cmd("CMD_LEVEL_LAND", "CcTerraform", e1, s1, p2_1)
        c2 == Cmd("CMD_LEVEL_LAND", "CcTerraform", e2, s2, p2_2)
        t == [s EXCEPT !.ev.levels = [ran |-> TRUE, l1_ok |-> in.l1_ok, l2_ok |-> in.l2_ok,
                                      c1 |-> c1, c2 |-> c2]]
    IN IF ~in.l2_ok THEN DoCommandWithCallback(t, c1, k, in.accept1, in.rail)
       ELSE DoCommandWithCallback(
                IF in.l1_ok THEN DoCommandP(t, c1, in.accept1, 0).st ELSE t,
                c2, k, in.accept2, in.rail)

\* DoAutodirTerraform without the case "only the second test run failed".
DoAutodirTerraform_NoOneFail(s, diagonal, start_tile, end_tile, track, rail_cmd, s1, e1, s2, e2, in) ==
    LET k == [rail_cmd |-> rail_cmd, start_tile |-> start_tile, end_tile |-> end_tile,
              track |-> track, estimate |-> in.estimate]
        diag_flag == IF diagonal THEN 1 ELSE 0
        p2_1 == (IF in.h1 < in.h2 THEN LM_RAISE ELSE LM_LEVEL) * 2 + diag_flag
        p2_2 == (IF in.h2 < in.h1 THEN LM_RAISE ELSE LM_LEVEL) * 2 + diag_flag
        c1 == Cmd("CMD_LEVEL_LAND", "CcTerraform", e1, s1, p2_1)
        c2 == Cmd("CMD_LEVEL_LAND", "CcTerraform", e2, s2, p2_2)
        t == [s EXCEPT !.ev.levels = [ran |-> TRUE, l1_ok |-> in.l1_ok, l2_ok |-> in.l2_ok,
                                      c1 |-> c1, c2 |-> c2]]
    IN IF ~in.l1_ok /\ ~in.l2_ok THEN rail_callback(t, k, TRUE, in.rail)
       ELSE DoCommandWithCallback(
                IF in.l1_ok THEN DoCommandP(t, c1, in.accept1, 0).st ELSE t,
                c2, k, in.accept2, in.rail)

\* in: [h1, h2, l1_ok, l2_ok, accept1, accept2, estimate, rail]
DoAutodirTerraform(s, diagonal, start_tile, end_tile, track, rail_cmd, s1, e1, s2, e2, in) ==
    LET k == [rail_cmd |-> rail_cmd, start_tile |-> start_tile, end_tile |-> end_tile,
              track |-> track, estimate |-> in.estimate]
        diag_flag == IF diagonal THEN 1 ELSE 0
        p2_1 == (IF in.h1 < in.h2 THEN LM_RAISE ELSE LM_LEVEL) * 2 + diag_flag
        p2_2 == (IF in.h2 < in.h1 THEN LM_RAISE ELSE LM_LEVEL) * 2 + diag_flag
        c1 == Cmd("CMD_LEVEL_LAND", "CcTerraform", e1, s1, p2_1)
        c2 == Cmd("CMD_LEVEL_LAND", "CcTerraform", e2, s2, p2_2)
        t == [s EXCEPT !.ev.levels = [ran |-> TRUE, l1_ok |-> in.l1_ok, l2_ok |-> in.l2_ok,
                                      c1 |-> c1, c2 |-> c2]]
    IN IF ~in.l1_ok /\ ~in.l2_ok THEN rail_callback(t, k, TRUE, in.rail)
       ELSE IF ~in.l2_ok THEN DoCommandWithCallback(t, c1, k, in.accept1, in.rail)
       ELSE DoCommandWithCallback(
                IF in.l1_ok THEN DoCommandP(t, c1, in.accept1, 0).st ELSE t,
                c2, k, in.accept2, in.rail)

\* map.h TILE_ADDXY, wrapping inside the model's map.
TILE_ADDXY(tile, x, y) ==
    ((TileX(tile) + x) % MapSizeX) + MapSizeX * ((TileY(tile) + y) % MapSizeX)

B(b) == IF b THEN 1 ELSE 0

PolyDirs ==
    {"TRACKDIR_X_NE", "TRACKDIR_X_SW", "TRACKDIR_Y_SE", "TRACKDIR_Y_NW",
     "TRACKDIR_LEFT_N", "TRACKDIR_RIGHT_N", "TRACKDIR_LEFT_S", "TRACKDIR_RIGHT_S",
     "TRACKDIR_UPPER_E", "TRACKDIR_LOWER_E", "TRACKDIR_UPPER_W", "TRACKDIR_LOWER_W"}
INVALID_TRACKDIR == "INVALID_TRACKDIR"

\* The corner tiles <<diagonal, s1, e1, s2, e2>> of each polyline direction.
AutodirCorners(poly_dir, st, en) ==
    LET eq == B(TileX(en) - TileY(en) = TileX(st) - TileY(st))
        ez == B(TileX(en) + TileY(en) = TileX(st) + TileY(st))
        A(tile, x, y) == TILE_ADDXY(tile, x, y)
    IN CASE poly_dir = "TRACKDIR_X_NE" -> <<FALSE, A(st, 1, 0), en, A(st, 1, 1), A(en, 0, 1)>>
         [] poly_dir = "TRACKDIR_X_SW" -> <<FALSE, st, A(en, 1, 0), A(st, 0, 1), A(en, 1, 1)>>
         [] poly_dir = "TRACKDIR_Y_SE" -> <<FALSE, st, A(en, 0, 1), A(st, 1, 0), A(en, 1, 1)>>
         [] poly_dir = "TRACKDIR_Y_NW" -> <<FALSE, A(st, 0, 1), en, A(st, 1, 1), A(en, 1, 0)>>
         [] poly_dir = "TRACKDIR_LEFT_N" ->
                <<TRUE, A(st, 1, 0), A(en, eq, 0), A(st, 1, 1), A(en, 0, 1 - eq)>>
         [] poly_dir = "TRACKDIR_RIGHT_N" ->
                <<TRUE, A(st, 0, 1), A(en, 0, eq), A(st, 1, 1), A(en, 1 - eq, 0)>>
         [] poly_dir = "TRACKDIR_LEFT_S" ->
                <<TRUE, A(st, 1, 0), A(en, 1, 1 - eq), st, A(en, eq, 1)>>
         [] poly_dir = "TRACKDIR_RIGHT_S" ->
                <<TRUE, A(st, 0, 1), A(en, 1 - eq, 1), st, A(en, 1, eq)>>
         [] poly_dir = "TRACKDIR_UPPER_E" ->
                <<TRUE, st, A(en, 0, 1 - ez), A(st, 1, 0), A(en, 1 - ez, 1)>>
         [] poly_dir = "TRACKDIR_LOWER_E" ->
                <<TRUE, A(st, 1, 1), A(en, ez, 1), A(st, 1, 0), A(en, 0, ez)>>
         [] poly_dir = "TRACKDIR_UPPER_W" ->
                <<TRUE, st, A(en, 1 - ez, 0), A(st, 0, 1), A(en, 1, 1 - ez)>>
         [] poly_dir = "TRACKDIR_LOWER_W" ->
                <<TRUE, A(st, 1, 1), A(en, 1, ez), A(st, 0, 1), A(en, ez, 0)>>

\* DoAutodirTerraform with the corner tiles q of the direction.
DoAutodirTerraform_At(s, q, start_tile, end_tile, track, rail_cmd, in) ==
    DoAutodirTerraform(s, q[1], start_tile, end_tile, track, rail_cmd,
                       q[2], q[3], q[4], q[5], in)

HandleAutodirTerraform(s, start_tile, end_tile, track, rail_cmd, poly_dir, in) ==
    IF poly_dir \in PolyDirs
    THEN DoAutodirTerraform_At(s, AutodirCorners(poly_dir, start_tile, end_tile),
                               start_tile, end_tile, track, rail_cmd, in)
    ELSE [st |-> s, ret |-> TRUE]

\* in: [estimate, poly_terra, one_tile, track, start, end, poly_dir, ars,
\*      terra : input of DoAutodirTerraform, rail : outcome of the rail command]
\* The snap point of HandleAutodirPlacement.
HandleAutodirPlacement_Store(s, in) ==
    IF ~in.estimate /\ in.rail.endtile # INVALID_TILE
    THEN StoreRailPlacementEndpoints(s, in.start, in.rail.endtile, in.track, TRUE)
    ELSE s

\* "if (!DoCommandP(&cmd)) return;" and the snap point after it.
HandleAutodirPlacement_Placed(d, in) ==
    IF ~d.ret THEN d.st ELSE HandleAutodirPlacement_Store(d.st, in)

\* The command of a rail drag.
HandleAutodirPlacement_cmd(s, in) ==
    IF in.one_tile THEN GenericPlaceRailCmd(s, in.end, in.track, in.ars)
    ELSE DoRailroadTrackCmd(s, in.start, in.end, in.track, in.ars)

\* HandleAutodirPlacement without the test run that looks for overbuilding:
\* the command is always executed.
HandleAutodirPlacement_NoTestRun(s, in) ==
    IF in.estimate \/ ~IsWidgetLowered(s, WID_RAT_POLYRAIL) \/ s._remove_button_clicked
    THEN HandleAutodirPlacement_Placed(
            DoCommandP(s, HandleAutodirPlacement_cmd(s, in), in.rail.accepted, 0), in)
    ELSE IF in.poly_terra
    THEN HandleAutodirTerraform(s, in.start, in.end, in.track,
                                HandleAutodirPlacement_cmd(s, in), in.poly_dir,
                                [in.terra EXCEPT !.estimate = in.estimate]).st
    ELSE HandleAutodirPlacement_Placed(
            DoCommandP(s, HandleAutodirPlacement_cmd(s, in), in.rail.accepted, 0), in)

HandleAutodirPlacement(s, in) ==
    IF in.estimate \/ ~IsWidgetLowered(s, WID_RAT_POLYRAIL) \/ s._remove_button_clicked
    THEN HandleAutodirPlacement_Placed(
            DoCommandP(s, HandleAutodirPlacement_cmd(s, in), in.rail.accepted, 0), in)
    ELSE IF in.poly_terra
    THEN HandleAutodirTerraform(s, in.start, in.end, in.track,
                                HandleAutodirPlacement_cmd(s, in), in.poly_dir,
                                [in.terra EXCEPT !.estimate = in.estimate]).st
    ELSE IF ~in.rail.already_built \/ in.rail.endtile = INVALID_TILE
    THEN HandleAutodirPlacement_Placed(
            DoCommandP(s, HandleAutodirPlacement_cmd(s, in), in.rail.accepted, 0), in)
    ELSE HandleAutodirPlacement_Store(s, in)

(***************************************************************************)
(* Signals.                                                                *)
(***************************************************************************)
Pow2(n) == 2 ^ n
\* core/bitmath_func.hpp SB: bits s .. s+n-1 of x are replaced by d, cut to n bits.
SB(x, s, n, d) ==
    x - ((x \div Pow2(s)) % Pow2(n)) * Pow2(s) + (d % Pow2(n)) * Pow2(s)
GB(x, s, n) == (x \div Pow2(s)) % Pow2(n)

\* GenericPlaceSignals with the convert flag packed into bit 7, the top bit
\* of the signal type.
GenericPlaceSignals_ConvertAt7(s, tile, in) ==
    IF s._remove_button_clicked
    THEN DoCommandP(s, Cmd("CMD_REMOVE_SIGNALS", "CcPlaySound_CONSTRUCTION_RAIL",
                           tile, in.track, 0), in.accepted, 0).st
    ELSE LET w == WC_BUILD_SIGNAL \in s.windows
             cycle_types == IF in.cycle_all THEN SIGTYPE_NORMAL + SIGTYPE_LAST * 8
                            ELSE SIGTYPE_PBS + SIGTYPE_LAST * 8
             p1a == SB(in.track, 3, 1, B(in.fn_mod))
             p1b == IF w THEN SB(p1a, 4, 1, s._cur_signal_variant)
                    ELSE SB(p1a, 4, 1, IF in.semaphore_year THEN SIG_SEMAPHORE ELSE SIG_ELECTRIC)
             p1c == IF w THEN SB(p1b, 5, 3, s._cur_signal_type)
                    ELSE SB(p1b, 5, 3, SIGTYPE_PBS_ONEWAY)
             p1d == IF w THEN SB(p1c, 7, 1, B(s._convert_signal_button))
                    ELSE SB(p1c, 7, 1, 0)
             p1 == SB(p1d, 9, 6, cycle_types)
         IN DoCommandP(s, Cmd("CMD_BUILD_SIGNALS", "CcPlaySound_CONSTRUCTION_RAIL",
                              tile, p1, 0), in.accepted, 0).st

\* in: [track, fn_mod, cycle_all, semaphore_year, accepted]
GenericPlaceSignals(s, tile, in) ==
    IF s._remove_button_clicked
    THEN DoCommandP(s, Cmd("CMD_REMOVE_SIGNALS", "CcPlaySound_CONSTRUCTION_RAIL",
                           tile, in.track, 0), in.accepted, 0).st
    ELSE LET w == WC_BUILD_SIGNAL \in s.windows
             cycle_types == IF in.cycle_all THEN SIGTYPE_NORMAL + SIGTYPE_LAST * 8
                            ELSE SIGTYPE_PBS + SIGTYPE_LAST * 8
             p1a == SB(in.track, 3, 1, B(in.fn_mod))
             p1b == IF w THEN SB(p1a, 4, 1, s._cur_signal_variant)
                    ELSE SB(p1a, 4, 1, IF in.semaphore_year THEN SIG_SEMAPHORE ELSE SIG_ELECTRIC)
             p1c == IF w THEN SB(p1b, 5, 3, s._cur_signal_type)
                    ELSE SB(p1b, 5, 3, SIGTYPE_PBS_ONEWAY)
             p1d == IF w THEN SB(p1c, 8, 1, B(s._convert_signal_button))
                    ELSE SB(p1c, 8, 1, 0)
             p1 == SB(p1d, 9, 6, cycle_types)
         IN DoCommandP(s, Cmd("CMD_BUILD_SIGNALS", "CcPlaySound_CONSTRUCTION_RAIL",
                              tile, p1, 0), in.accepted, 0).st

\* in: the input of GenericPlaceSignals and [one_tile, start, end, fixed_distance]
HandleAutoSignalPlacement(s, in) ==
    IF in.one_tile THEN GenericPlaceSignals(s, in.end, in)
    ELSE LET w == WC_BUILD_SIGNAL \in s.windows
             a == SB(in.track, 3, 1, 0)
             b == IF w THEN SB(a, 4, 1, s._cur_signal_variant)
                  ELSE SB(a, 4, 1, IF in.semaphore_year THEN SIG_SEMAPHORE ELSE SIG_ELECTRIC)
             c == SB(b, 6, 1, B(in.fn_mod))
             d == IF w THEN SB(c, 7, 3, s._cur_signal_type)
                  ELSE SB(c, 7, 3, SIGTYPE_PBS_ONEWAY)
             e == SB(d, 24, 8, s.drag_signals_density)
             p2 == SB(e, 10, 1, B(~in.fixed_distance))
         IN DoCommandP(s, Cmd(IF s._remove_button_clicked THEN "CMD_REMOVE_SIGNAL_TRACK"
                                                          ELSE "CMD_BUILD_SIGNAL_TRACK",
                              "CcPlaySound_CONSTRUCTION_RAIL", in.start, in.end, p2),
                       in.accepted, 0).st

\* BuildSignalWindow::OnClick on one of the twelve signal buttons, on the
\* convert button or on a density arrow.
\* The signal button cases: r is the state after the selection changed.
BuildSignalWindow_OnClick_Remove(r) ==
    IF r._remove_button_clicked /\ r.tbOpen THEN ToggleRailButton_Remove(r) ELSE r

BuildSignalWindow_OnClick(s, widget) ==
    BuildSignalWindow_OnInvalidateData(
        CASE widget \in SignalButtons ->
                BuildSignalWindow_OnClick_Remove(
                    [s EXCEPT !.sigLowered = @ \ {CurSignalButton(s)},
                              !._cur_signal_type =
                                   (widget - WID_BS_SEMAPHORE_NORM) % (SIGTYPE_LAST + 1),
                              !._cur_signal_variant =
                                   IF widget >= WID_BS_ELECTRIC_NORM THEN SIG_ELECTRIC
                                                                     ELSE SIG_SEMAPHORE])
          [] widget = WID_BS_CONVERT ->
                [s EXCEPT !._convert_signal_button = ~@]
          [] widget = WID_BS_DRAG_SIGNALS_DENSITY_DECREASE ->
                IF s.drag_signals_density > MinDensity
                THEN [s EXCEPT !.drag_signals_density = @ - 1] ELSE s
          [] widget = WID_BS_DRAG_SIGNALS_DENSITY_INCREASE ->
                IF s.drag_signals_density < MaxDensity
                THEN [s EXCEPT !.drag_signals_density = @ + 1] ELSE s)

\* ResetSignalVariant; semaphore_year is _cur_year < semaphore_build_before.
ResetSignalVariant(s, semaphore_year) ==
    LET new_variant == IF semaphore_year THEN SIG_SEMAPHORE ELSE SIG_ELECTRIC
    IN IF new_variant # s._cur_signal_variant
       THEN LET a == IF WC_BUILD_SIGNAL \in s.windows
                     THEN [s EXCEPT !.sigLowered = @ \ {CurSignalButton(s)}]
                     ELSE s
            IN [a EXCEPT !._cur_signal_variant = new_variant]
       ELSE s

(***************************************************************************)
(* BuildRailToolbarWindow::OnPlaceObject and OnPlaceMouseUp.               *)
(***************************************************************************)
VpStartPlaceSizing(s, proc) == [s EXCEPT !.thd_sizing = proc]

\* station_gui.cpp ShowSelectStationIfNeeded: the command is either held by a
\* station selection window until the user picks a station, or sent at once.
ShowSelectStationIfNeeded(s, c, needed, accepted) ==
    IF needed
    THEN [s EXCEPT !.windows = @ \cup {WC_SELECT_STATION}, !.select_cmd = c]
    ELSE DoCommandP(s, c, accepted, 0).st

\* in: [axis_valid, accepted]
PlaceRail_Waypoint(s, tile, in) ==
    IF s._remove_button_clicked THEN VpStartPlaceSizing(s, DDSP_BUILD_STATION)
    ELSE IF in.axis_valid THEN VpStartPlaceSizing(s, DDSP_BUILD_STATION)
    ELSE DoCommandP(s, Cmd("CMD_BUILD_RAIL_WAYPOINT", "none", tile, 0, 0), in.accepted, 0).st

\* in: [improved_join, needed, accepted]
PlaceRail_Station(s, tile, in) ==
    IF s._remove_button_clicked THEN VpStartPlaceSizing(s, DDSP_BUILD_STATION)
    ELSE IF s.station_dragdrop THEN VpStartPlaceSizing(s, DDSP_BUILD_STATION)
    ELSE IF in.improved_join THEN [s EXCEPT !.stationPlacement = TRUE]
    ELSE ShowSelectStationIfNeeded(
            s, Cmd("CMD_BUILD_RAIL_STATION", "CcStation", tile, s._cur_railtype, 0),
            in.needed, in.accepted)

HandleStationPlacement(s, start, end, in) ==
    IF in.improved_join THEN [s EXCEPT !.stationPlacement = TRUE]
    ELSE ShowSelectStationIfNeeded(
            s, Cmd("CMD_BUILD_RAIL_STATION", "CcStation", start, s._cur_railtype, 0),
            in.needed, in.accepted)

\* case DDSP_BUILD_BRIDGE of OnPlaceMouseUp
OnPlaceMouseUp_Bridge(s, in) ==
    [ResetObjectToPlaceIf(~in.persistent, s)
     EXCEPT !.windows = IF in.bridge_window THEN @ \cup {WC_BUILD_BRIDGE} ELSE @]

\* in: [pt_valid, persistent, bridge_window, fn_mod, improved_join, needed,
\*      accepted, start, end, rail : input of HandleAutodirPlacement,
\*      sig : input of HandleAutoSignalPlacement]
OnPlaceMouseUp(s, select_proc, in) ==
    IF ~in.pt_valid THEN s
    ELSE CASE select_proc = DDSP_BUILD_BRIDGE -> OnPlaceMouseUp_Bridge(s, in)
           [] select_proc = DDSP_PLACE_RAIL -> HandleAutodirPlacement(s, in.rail)
           [] select_proc = DDSP_BUILD_SIGNALS -> HandleAutoSignalPlacement(s, in.sig)
           [] select_proc = DDSP_DEMOLISH_AREA ->
                DoCommandP(s, Cmd("CMD_CLEAR_AREA", "CcPlaySound_EXPLOSION", in.end, in.start,
                                  B(in.fn_mod)), in.accepted, 0).st
           [] select_proc = DDSP_CONVERT_RAIL ->
                DoCommandP(s, Cmd("CMD_CONVERT_RAIL", "CcPlaySound_CONSTRUCTION_RAIL", in.end,
                                  in.start, s._cur_railtype + (IF in.fn_mod THEN 64 ELSE 0)),
                           in.accepted, 0).st
           [] select_proc = DDSP_BUILD_STATION ->
                IF IsWidgetLowered(s, WID_RAT_BUILD_STATION)
                THEN IF s._remove_button_clicked
                     THEN DoCommandP(s, Cmd("CMD_REMOVE_FROM_RAIL_STATION",
                                            "CcPlaySound_CONSTRUCTION_RAIL", in.end, in.start,
                                            IF in.fn_mod THEN 0 ELSE 1), in.accepted, 0).st
                     ELSE HandleStationPlacement(s, in.start, in.end, in)
                ELSE IF s._remove_button_clicked
                     THEN DoCommandP(s, Cmd("CMD_REMOVE_FROM_RAIL_WAYPOINT",
                                            "CcPlaySound_CONSTRUCTION_RAIL", in.end, in.start,
                                            IF in.fn_mod THEN 0 ELSE 1), in.accepted, 0).st
                     ELSE ShowSelectStationIfNeeded(
                            s, Cmd("CMD_BUILD_RAIL_WAYPOINT", "CcPlaySound_CONSTRUCTION_RAIL",
                                   in.start, s._cur_railtype, 0), in.needed, in.accepted)
           [] select_proc = CM_DDSP_BLUEPRINT_AREA ->
                [SetObjectToPlace(s, WC_BUILD_TOOLBAR) EXCEPT
                    !.blueprint = TRUE, !.last_user_action = CM_WID_RAT_BLUEPRINT_PLACE]

\* in: [tile, fn_mod, keep_depot_tools, ddir, axis_valid, improved_join, needed,
\*      accepted, endtile, is_bridge_tile, up : input of OnPlaceMouseUp]
OnPlaceObject(s, in) ==
    LET lua == s.last_user_action
    IN CASE lua \in {WID_RAT_BUILD_NS, WID_RAT_BUILD_X, WID_RAT_BUILD_EW, WID_RAT_BUILD_Y,
                     WID_RAT_AUTORAIL, WID_RAT_POLYRAIL} ->
                VpStartPlaceSizing(s, DDSP_PLACE_RAIL)
         [] lua = WID_RAT_DEMOLISH -> VpStartPlaceSizing(s, DDSP_DEMOLISH_AREA)
         [] lua = WID_RAT_BUILD_DEPOT ->
                ResetObjectToPlaceIf(
                    in.fn_mod = in.keep_depot_tools,
                    DoCommandP(s, Cmd("CMD_BUILD_TRAIN_DEPOT", "CcRailDepot", in.tile,
                                      s._cur_railtype, in.ddir), in.accepted, 0).st)
         [] lua = WID_RAT_BUILD_WAYPOINT -> PlaceRail_Waypoint(s, in.tile, in)
         [] lua = WID_RAT_BUILD_STATION -> PlaceRail_Station(s, in.tile, in)
         [] lua = WID_RAT_BUILD_SIGNALS -> VpStartPlaceSizing(s, DDSP_BUILD_SIGNALS)
         [] lua = WID_RAT_BUILD_BRIDGE ->
                IF in.is_bridge_tile THEN OnPlaceMouseUp(s, DDSP_BUILD_BRIDGE, in.up)
                ELSE VpStartPlaceSizing(s, DDSP_BUILD_BRIDGE)
         [] lua = CM_WID_RAT_BLUEPRINT -> VpStartPlaceSizing(s, CM_DDSP_BLUEPRINT_AREA)
         [] lua = CM_WID_RAT_BLUEPRINT_PLACE -> ResetObjectToPlace(s)
         [] lua = WID_RAT_BUILD_TUNNEL ->
                DoCommandP(s, Cmd("CMD_BUILD_TUNNEL", "CcBuildRailTunnel", in.tile,
                                  s._cur_railtype + 256 * 0, 0), in.accepted, in.endtile).st
         [] lua = WID_RAT_CONVERT_RAIL -> VpStartPlaceSizing(s, DDSP_CONVERT_RAIL)
         [] OTHER -> [s EXCEPT !.ev.ret = "NOT_REACHED"]

(***************************************************************************)
(* Inputs of the events: modifier keys, settings, what the map holds and   *)
(* what the command engine answers.  An input set holds, for every case of *)
(* a handler, the values of the inputs that case reads; the inputs it does *)
(* not read are left at their defaults.                                    *)
(***************************************************************************)
\* Outcomes of the rail command of a rail placement: whether its test run
\* reports "already built", _rail_track_endtile and whether it is accepted.
RailOutcomes(T) ==
    {r \in [already_built : BOOLEAN, endtile : T \cup {INVALID_TILE}, accepted : BOOLEAN] :
        (r.already_built /\ r.endtile # INVALID_TILE) => ~r.accepted}
NoOutcome == [already_built |-> FALSE, endtile |-> 0, accepted |-> FALSE]

\* What DoAutodirTerraform reads: the corner heights, the two test runs and
\* the answers of the command engine to the level commands it sends.
NoTerra ==
    [h1 |-> 0, h2 |-> 0, l1_ok |-> FALSE, l2_ok |-> FALSE, accept1 |-> FALSE,
     accept2 |-> FALSE, estimate |-> FALSE, rail |-> NoOutcome]
TerraInputs(H) ==
    {i \in [h1 : H, h2 : H, l1_ok : BOOLEAN, l2_ok : BOOLEAN, accept1 : BOOLEAN,
            accept2 : BOOLEAN, estimate : {FALSE}, rail : {NoOutcome}] :
        /\ i.h1 = 0 \/ i.h2 = 0
        /\ i.accept1 => i.l1_ok
        /\ i.accept2 => i.l2_ok}

\* Inputs of a rail mouse-up: St, En and Tr are the start tiles, end tiles
\* and tracks of the drag, PD the polyline directions, H the corner heights,
\* PT the values of the polyline terraform mode, E those of the estimate
\* modifier and O those of "the drag covers one tile".
RailInputs(St, En, Tr, PD, H, PT, E, O) ==
    UNION {
        {[estimate |-> e, poly_terra |-> pt, one_tile |-> o, track |-> tr, start |-> st,
          end |-> en, poly_dir |-> pd, ars |-> FALSE,
          terra |-> [ti EXCEPT !.rail = r], rail |-> r] :
            e \in E, o \in O, tr \in Tr, st \in St, en \in En,
            ti \in IF pt /\ pd \in PolyDirs THEN TerraInputs(H) ELSE {NoTerra},
            r \in IF pt /\ pd \notin PolyDirs THEN {NoOutcome} ELSE RailOutcomes(En)} :
        pt \in PT, pd \in PD}

SignalInputs(T, Tr) ==
    [track : Tr, fn_mod : BOOLEAN, cycle_all : BOOLEAN, semaphore_year : BOOLEAN,
     accepted : BOOLEAN, one_tile : BOOLEAN, start : T, end : T, fixed_distance : {TRUE}]

\* Inputs of OnPlaceMouseUp other than those of the rail and signal cases.
NoUp ==
    [pt_valid |-> TRUE, persistent |-> FALSE, bridge_window |-> FALSE, fn_mod |-> FALSE,
     improved_join |-> FALSE, needed |-> FALSE, accepted |-> FALSE, start |-> 0, end |-> 0]
UpInputs(select_proc, T) ==
    {[NoUp EXCEPT !.pt_valid = FALSE]} \cup
    CASE select_proc = DDSP_BUILD_BRIDGE ->
            {[NoUp EXCEPT !.persistent = p, !.bridge_window = w] :
                p \in BOOLEAN, w \in BOOLEAN}
      [] select_proc \in {DDSP_DEMOLISH_AREA, DDSP_CONVERT_RAIL} ->
            {[NoUp EXCEPT !.fn_mod = f, !.accepted = a, !.start = st, !.end = en] :
                f \in BOOLEAN, a \in BOOLEAN, st \in T, en \in T}
      [] select_proc = DDSP_BUILD_STATION ->
            {[NoUp EXCEPT !.fn_mod = f, !.improved_join = j, !.needed = n, !.accepted = a,
                          !.start = st, !.end = en] :
                f \in BOOLEAN, j \in BOOLEAN, n \in BOOLEAN, a \in BOOLEAN, st \in T, en \in T}
      [] OTHER -> {NoUp}

\* Inputs of OnPlaceObject for the tool lua.
NoObject ==
    [tile |-> 0, fn_mod |-> FALSE, keep_depot_tools |-> FALSE, ddir |-> DIAGDIR_NE,
     axis_valid |-> FALSE, improved_join |-> FALSE, needed |-> FALSE, accepted |-> FALSE,
     endtile |-> 0, is_bridge_tile |-> FALSE, up |-> NoUp]
ObjectInputs(lua, T, D) ==
    CASE lua = WID_RAT_BUILD_DEPOT ->
            {[NoObject EXCEPT !.tile = t, !.fn_mod = f, !.keep_depot_tools = k, !.ddir = d,
                              !.accepted = a] :
                t \in T, f \in BOOLEAN, k \in BOOLEAN, d \in D, a \in BOOLEAN}
      [] lua = WID_RAT_BUILD_WAYPOINT ->
            {[NoObject EXCEPT !.tile = t, !.axis_valid = x, !.accepted = a] :
                t \in T, x \in BOOLEAN, a \in BOOLEAN}
      [] lua = WID_RAT_BUILD_STATION ->
            {[NoObject EXCEPT !.tile = t, !.improved_join = j, !.needed = n, !.accepted = a] :
                t \in T, j \in BOOLEAN, n \in BOOLEAN, a \in BOOLEAN}
      [] lua = WID_RAT_BUILD_BRIDGE ->
            {[NoObject EXCEPT !.is_bridge_tile = b, !.up = u] :
                b \in BOOLEAN, u \in UpInputs(DDSP_BUILD_BRIDGE, T) \ {[NoUp EXCEPT !.pt_valid = FALSE]}}
      [] lua = WID_RAT_BUILD_TUNNEL ->
            {[NoObject EXCEPT !.tile = t, !.accepted = a, !.endtile = e] :
                t \in T, a \in BOOLEAN, e \in T}
      [] OTHER -> {NoObject}

\* Inputs of the command callback cb: the result of the command, the
\* settings the callback reads and, for the depot, the tile in front of it.
CallbackInputs(cb, T, M) ==
    {FailIn(0)} \cup
    CASE cb = "CcPlaySound_CONSTRUCTION_RAIL" ->
            {[FailIn(0) EXCEPT !.ok = TRUE, !.confirm = c] : c \in BOOLEAN}
      [] cb = "CcRailDepot" ->
            {[FailIn(0) EXCEPT !.ok = TRUE, !.confirm = c, !.persistent = p, !.ars = a,
                               !.map = m] :
                c \in BOOLEAN, p \in BOOLEAN, a \in BOOLEAN, m \in M}
      [] cb = "CcStation" ->
            {[FailIn(0) EXCEPT !.ok = TRUE, !.confirm = c, !.persistent = p,
                               !.station_class = k, !.station_type = y] :
                c \in BOOLEAN, p \in BOOLEAN, k \in {STAT_CLASS_DFLT, 1}, y \in {0, 1}}
      [] cb = "CcBuildRailTunnel" ->
            {FailIn(e) : e \in T} \cup
            {[FailIn(e) EXCEPT !.ok = TRUE, !.confirm = c, !.persistent = p] :
                e \in T, c \in BOOLEAN, p \in BOOLEAN}
      [] OTHER -> {[FailIn(0) EXCEPT !.ok = TRUE]}

\* The inputs a click on widget reads; the others are fixed.
ClickRelevant(widget, in) ==
    /\ widget \notin {WID_RAT_POLYRAIL, WID_RAT_BUILD_SIGNALS} => ~in.fn_mod
    /\ widget # WID_RAT_BUILD_WAYPOINT => ~in.waypoints
    /\ widget \in {WID_RAT_CAPTION, WID_RAT_REMOVE} => ~in.inverted

HotkeyRelevant(hotkey, in) ==
    /\ hotkey # WID_RAT_BUILD_SIGNALS => ~in.fn_mod
    /\ hotkey # WID_RAT_BUILD_WAYPOINT => ~in.waypoints
    /\ hotkey \in {WID_RAT_REMOVE, HOTKEY_BLUEPRINT_ROTATE} => ~in.inverted

Begin(handler, arg) == [Cur EXCEPT !.ev.handler = handler, !.ev.arg = arg]

\* No command is in flight: the command engine has answered every command.
EngineIdle == pending = <<>>

(***************************************************************************)
(* Events.                                                                 *)
(***************************************************************************)
\* A mouse click on one of the buttons W of the rail toolbar.
Click(W, In) ==
    /\ tbOpen
    /\ \E widget \in W, in \in In :
          /\ ClickRelevant(widget, in)
          /\ Commit(OnClick([Begin("OnClick", widget) EXCEPT !.ev.fn_mod = in.fn_mod],
                            FALSE, widget, in))

\* A hotkey of the rail toolbar.
Hotkey(HK, In) ==
    /\ tbOpen
    /\ \E hotkey \in HK, in \in In :
          /\ HotkeyRelevant(hotkey, in)
          /\ Commit(OnHotkey([Begin("OnHotkey", hotkey) EXCEPT !.ev.fn_mod = in.fn_mod],
                             hotkey, in))

\* The remove modifier key is pressed or released.
RemoveModChange ==
    /\ tbOpen
    /\ \E inverted \in BOOLEAN :
          Commit(CM_OnRemoveModStateChange(Begin("CM_OnRemoveModStateChange", "none"), inverted))

\* A click on the map while the toolbar owns the object to place.
PlaceObject(T, D) ==
    /\ tbOpen /\ thd_window = WC_BUILD_TOOLBAR /\ thd_sizing = DDSP_NONE
    /\ \E in \in ObjectInputs(last_user_action, T, D) :
          Commit(OnPlaceObject(Begin("OnPlaceObject", last_user_action), in))

\* The mouse button is released at the end of a drag: the drag ends and the
\* window that owns the placement gets OnPlaceMouseUp.
MouseUp(select_proc, in) ==
    OnPlaceMouseUp([Begin("OnPlaceMouseUp", select_proc) EXCEPT !.thd_sizing = DDSP_NONE,
                                                                !.ev.in = in],
                   select_proc, in)

MouseUpRail(In) ==
    /\ tbOpen /\ thd_window = WC_BUILD_TOOLBAR /\ thd_sizing = DDSP_PLACE_RAIL
    /\ \/ Commit(MouseUp(thd_sizing, [pt_valid |-> FALSE]))
       \/ \E in \in In :
             /\ (_remove_button_clicked \/ WID_RAT_POLYRAIL \notin lowered) => ~in.poly_terra
             /\ Commit(MouseUp(thd_sizing, [pt_valid |-> TRUE, rail |-> in]))

MouseUpSignals(T, Tr) ==
    /\ tbOpen /\ thd_window = WC_BUILD_TOOLBAR /\ thd_sizing = DDSP_BUILD_SIGNALS
    /\ \/ Commit(MouseUp(thd_sizing, [pt_valid |-> FALSE]))
       \/ \E in \in SignalInputs(T, Tr) :
             Commit(MouseUp(thd_sizing, [pt_valid |-> TRUE, sig |-> in]))

MouseUpOther(T) ==
    /\ tbOpen /\ thd_window = WC_BUILD_TOOLBAR
    /\ thd_sizing \notin {DDSP_NONE, DDSP_PLACE_RAIL, DDSP_BUILD_SIGNALS}
    /\ \E in \in UpInputs(thd_sizing, T) : Commit(MouseUp(thd_sizing, in))

\* The user presses Escape, or another window takes the object to place.
AbortPlacement ==
    \/ /\ thd_window # WC_MAIN_WINDOW
       /\ Commit(ResetObjectToPlace(Begin("ResetObjectToPlace", "user")))
    \/ /\ thd_window # WC_OTHER
       /\ Commit(SetObjectToPlace(Begin("SetObjectToPlace", WC_OTHER), WC_OTHER))

\* ShowBuildRailToolbar(railtype), from the main toolbar or a global hotkey.
ShowToolbar ==
    \E rt \in RailTypes \cup {INVALID_RAILTYPE}, company_valid \in BOOLEAN :
        Commit(ShowBuildRailToolbar(Begin("ShowBuildRailToolbar", <<rt, company_valid>>),
                                    rt, company_valid))

\* The user closes the rail toolbar, or opens another build toolbar, which
\* closes every window of class WC_BUILD_TOOLBAR first.
CloseToolbar ==
    \/ /\ tbOpen
       /\ Commit(BuildRailToolbarWindow_Close(Begin("Close", WC_BUILD_TOOLBAR)))
    \/ /\ ~otherTb
       /\ Commit([CloseBuildToolbars(Begin("ShowOtherToolbar", WC_BUILD_TOOLBAR))
                      EXCEPT !.otherTb = TRUE])

\* The user closes a picker, the station selection or the bridge window.
ClosePicker ==
    \E wc \in windows : Commit(CloseWindowById(Begin("Close", wc), wc))

\* The user picks a station in the station selection window.
SelectStation ==
    /\ WC_SELECT_STATION \in windows
    /\ \E accepted \in BOOLEAN :
          Commit(CloseWindowById(
                    DoCommandP(Begin("SelectStation", "none"), select_cmd, accepted, 0).st,
                    WC_SELECT_STATION))

\* A click in the signal picker on one of the widgets W.
SignalClick(W) ==
    /\ WC_BUILD_SIGNAL \in windows
    /\ \E widget \in W :
          Commit(BuildSignalWindow_OnClick(Begin("BuildSignalWindow::OnClick", widget), widget))

\* The year or the semaphore_build_before setting changes.
SignalVariantReset ==
    \E semaphore_year \in BOOLEAN :
        Commit(ResetSignalVariant(Begin("ResetSignalVariant", semaphore_year), semaphore_year))

\* The state in which the callback of the oldest command in flight runs.
Resolving == [Begin("Resolve", Head(pending)) EXCEPT !.pending = Tail(@)]

\* The command engine resolves the oldest command in flight and runs its
\* callback; a level command of the polyline terraform then runs rail_callback.
Resolve(cb, T, M) ==
    /\ pending # <<>>
    /\ Head(pending).cb = cb
    /\ \E in \in CallbackInputs(cb, T, M) :
          IF Head(pending).then = NoThen
          THEN Commit(RunCallback([Resolving EXCEPT !.ev.in = in], Head(pending), in))
          ELSE \E out \in RailOutcomes(T) :
                  Commit(rail_callback(RunCallback([Resolving EXCEPT !.ev.in = in],
                                                   Head(pending), in),
                                       Head(pending).then, in.ok, out).st)

NoMap == {FailIn(0).map}
ResolveSound(T) == Resolve("CcPlaySound_CONSTRUCTION_RAIL", T, NoMap)
ResolveExplosion(T) == Resolve("CcPlaySound_EXPLOSION", T, NoMap)
ResolveDepot(T, M) == Resolve("CcRailDepot", T, M)
ResolveStation(T) == Resolve("CcStation", T, NoMap)
ResolveTunnel(T) == Resolve("CcBuildRailTunnel", T, NoMap)
ResolveTerraform(T) == Resolve("CcTerraform", T, NoMap)

\* The program variables hold the state record s.
LoadState(s) ==
    /\ tbOpen = s.tbOpen
    /\ otherTb = s.otherTb
    /\ lowered = s.lowered
    /\ disabled = s.disabled
    /\ last_user_action = s.last_user_action
    /\ railtype = s.railtype
    /\ _cur_railtype = s._cur_railtype
    /\ _remove_button_clicked = s._remove_button_clicked
    /\ _cm_invert_remove = s._cm_invert_remove
    /\ thd_window = s.thd_window
    /\ thd_sizing = s.thd_sizing
    /\ windows = s.windows
    /\ snap = s.snap
    /\ station_dragdrop = s.station_dragdrop
    /\ blueprint = s.blueprint
    /\ stationPlacement = s.stationPlacement
    /\ _cur_signal_variant = s._cur_signal_variant
    /\ _cur_signal_type = s._cur_signal_type
    /\ _convert_signal_button = s._convert_signal_button
    /\ sigLowered = s.sigLowered
    /\ drag_signals_density = s.drag_signals_density
    /\ pending = s.pending
    /\ select_cmd = s.select_cmd
    /\ _last_built_railtype = s._last_built_railtype
    /\ _build_depot_direction = s._build_depot_direction
    /\ depotLowered = s.depotLowered
    /\ _railstation = s._railstation
    /\ station_numtracks = s.station_numtracks
    /\ station_platlength = s.station_platlength
    /\ stationLowered = s.stationLowered
    /\ newgrf_stations = s.newgrf_stations

\* The variables hold the state record s; no handler has run yet.
Load(s) == LoadState(s) /\ ev = NoEv

(***************************************************************************)
(* The toolbar specification: the game has started, no toolbar is open;    *)
(* the toolbar is opened, clicked, driven by hotkeys, aborted and closed.  *)
(***************************************************************************)
\* The state after InitializeRailGui / InitializeRailGUI.
GameStart ==
    [tbOpen |-> FALSE, otherTb |-> FALSE, lowered |-> {}, disabled |-> {},
     last_user_action |-> WIDGET_LIST_END, railtype |-> 0, _cur_railtype |-> 0,
     _remove_button_clicked |-> FALSE, _cm_invert_remove |-> FALSE,
     thd_window |-> WC_MAIN_WINDOW, thd_sizing |-> DDSP_NONE, windows |-> {},
     snap |-> RSM_NO_SNAP, station_dragdrop |-> TRUE, blueprint |-> FALSE,
     stationPlacement |-> FALSE, _cur_signal_variant |-> SIG_ELECTRIC,
     _cur_signal_type |-> SIGTYPE_PBS_ONEWAY, _convert_signal_button |-> FALSE,
     sigLowered |-> {}, drag_signals_density |-> 4, pending |-> <<>>,
     select_cmd |-> NoCmd, _last_built_railtype |-> 0,
     _build_depot_direction |-> DEPOTDIR_AUTO, depotLowered |-> {},
     _railstation |-> [orientation |-> AXIS_X, station_class |-> STAT_CLASS_DFLT,
                       station_type |-> 0, station_count |-> 1, newstations |-> FALSE],
     station_numtracks |-> 1, station_platlength |-> 5, stationLowered |-> {},
     newgrf_stations |-> FALSE, ev |-> NoEv]

Init == Load(GameStart)

Next ==
    \/ Click(ClickWidgets, ClickInputs)
    \/ Hotkey(Hotkeys, ClickInputs)
    \/ RemoveModChange
    \/ AbortPlacement
    \/ ShowToolbar
    \/ CloseToolbar
    \/ ClosePicker
    \/ SignalClick({WID_BS_ELECTRIC_PBS_OWAY})

Spec == Init /\ [][Next]_vars

(***************************************************************************)
(* The placement specification: the toolbar is open; tools are picked with *)
(* plain and remove-inverting clicks, the map is clicked and dragged on,   *)
(* and the command engine answers every command before the next input.     *)
(***************************************************************************)
NoClickInput == [fn_mod |-> FALSE, inverted |-> FALSE, waypoints |-> FALSE]
ToolbarOpen == [ShowBuildRailToolbar(GameStart, 0, TRUE) EXCEPT !.ev = NoEv]

PlaceTiles == {0, 1, 2}
PlaceClickInputs == [fn_mod : {FALSE}, inverted : BOOLEAN, waypoints : BOOLEAN]
PlaceRailInputs ==
    {i \in RailInputs({0}, {1}, {TRACK_X}, {"TRACKDIR_X_NE"}, {0}, BOOLEAN, {FALSE}, BOOLEAN) :
        i.poly_terra => ~i.one_tile}
PlaceMaps ==
    {[railway |-> TRUE, rail_tile_type |-> RAIL_TILE_NORMAL, trackbits |-> {TRACK_X}],
     [railway |-> FALSE, rail_tile_type |-> RAIL_TILE_NORMAL, trackbits |-> {}]}

InitPlace == Load(ToolbarOpen)

NextPlace ==
    \/ EngineIdle /\ Click(ClickWidgets, PlaceClickInputs)
    \/ EngineIdle /\ PlaceObject(PlaceTiles, {DIAGDIR_NE})
    \/ EngineIdle /\ MouseUpRail(PlaceRailInputs)
    \/ EngineIdle /\ MouseUpSignals({0}, {TRACK_X})
    \/ EngineIdle /\ MouseUpOther({0})
    \/ EngineIdle /\ SelectStation
    \/ EngineIdle /\ AbortPlacement
    \/ EngineIdle /\ ClosePicker
    \/ ResolveSound({1})
    \/ ResolveExplosion({0})
    \/ ResolveDepot({0}, PlaceMaps)
    \/ ResolveStation({0})
    \/ ResolveTunnel(PlaceTiles)
    \/ ResolveTerraform({1})

SpecPlace == InitPlace /\ [][NextPlace]_vars

(***************************************************************************)
(* The polyline terraform specification: the polyline tool is active; the  *)
(* map is dragged on with the terraform mode on or off and the command     *)
(* engine answers the level and rail commands in flight.                   *)
(***************************************************************************)
PolyrailActive ==
    [OnClick(ToolbarOpen, FALSE, WID_RAT_POLYRAIL, NoClickInput) EXCEPT !.ev = NoEv]

TerraRailInputs ==
    RailInputs({0}, {3}, {TRACK_X}, {"TRACKDIR_X_NE", "TRACKDIR_LEFT_N", INVALID_TRACKDIR},
               {0, 1}, BOOLEAN, {FALSE}, {FALSE})

InitTerra == Load(PolyrailActive)

NextTerra ==
    \/ EngineIdle /\ PlaceObject({0}, {DIAGDIR_NE})
    \/ EngineIdle /\ MouseUpRail(TerraRailInputs)
    \/ EngineIdle /\ Click({WID_RAT_REMOVE}, {NoClickInput})
    \/ ResolveTerraform({3})
    \/ ResolveSound({3})

SpecTerra == InitTerra /\ [][NextTerra]_vars

(***************************************************************************)
(* The signal picker specification: the signal tool is active and its      *)
(* picker is open; the picker is clicked, the year or the semaphore        *)
(* setting changes, and the picker is closed and opened again.             *)
(***************************************************************************)
SignalToolActive ==
    [OnClick(ToolbarOpen, FALSE, WID_RAT_BUILD_SIGNALS, NoClickInput) EXCEPT !.ev = NoEv]

SignalWidgets ==
    SignalButtons \cup {WID_BS_CONVERT, WID_BS_DRAG_SIGNALS_DENSITY_DECREASE,
                        WID_BS_DRAG_SIGNALS_DENSITY_INCREASE}

InitSignal == Load(SignalToolActive)

NextSignal ==
    \/ SignalClick(SignalWidgets)
    \/ SignalVariantReset
    \/ Click({WID_RAT_BUILD_SIGNALS, WID_RAT_REMOVE}, {NoClickInput})
    \/ ClosePicker

SpecSignal == InitSignal /\ [][NextSignal]_vars

(***************************************************************************)
(* The rail types of the local company: the drop down list of rail types   *)
(* and the default rail type.  _sorted_railtypes holds rail types, each at *)
(* most once; the inputs are the sets and settings the functions read.     *)
(***************************************************************************)
MaxCount == 2              \* rail tiles of one rail type on the map: 0 .. MaxCount
RAILTYPE_BEGIN == 0

SortedRailTypes ==
    {q \in UNION {[1 .. n -> RailTypes] : n \in 0 .. NumRailTypes} :
        \A i, j \in DOMAIN q : i # j => q[i] # q[j]}

\* new DropDownListStringItem(string, result, masked) and its subclasses
DropDownListItem(string, result, masked) ==
    [string |-> string, result |-> result, masked |-> masked]

RECURSIVE RailTypeItems_MaskAvail(_, _, _, _)
\* The loop with the mask of an item the wrong way round.
RailTypeItems_MaskAvail(sorted, used_railtypes, avail_railtypes, for_replacement) ==
    IF sorted = <<>> THEN <<>>
    ELSE IF Head(sorted) \notin used_railtypes
    THEN RailTypeItems_MaskAvail(Tail(sorted), used_railtypes, avail_railtypes,
                                 for_replacement)
    ELSE <<DropDownListItem(IF for_replacement THEN "replace_text" ELSE "menu_text",
                            Head(sorted), Head(sorted) \in avail_railtypes)>>
         \o RailTypeItems_MaskAvail(Tail(sorted), used_railtypes, avail_railtypes,
                                    for_replacement)

RECURSIVE RailTypeItems(_, _, _, _)
\* The loop of GetRailTypeDropDownList over _sorted_railtypes.
RailTypeItems(sorted, used_railtypes, avail_railtypes, for_replacement) ==
    IF sorted = <<>> THEN <<>>
    ELSE IF Head(sorted) \notin used_railtypes
    THEN RailTypeItems(Tail(sorted), used_railtypes, avail_railtypes, for_replacement)
    ELSE <<DropDownListItem(IF for_replacement THEN "replace_text" ELSE "menu_text",
                            Head(sorted), Head(sorted) \notin avail_railtypes)>>
         \o RailTypeItems(Tail(sorted), used_railtypes, avail_railtypes, for_replacement)

\* "if (list.size() == 0)": empty dropdowns are not allowed.
GetRailTypeDropDownList_NotEmpty(list) ==
    IF Len(list) = 0 THEN <<DropDownListItem("STR_NONE", INVALID_RAILTYPE, TRUE)>>
    ELSE list

\* GetRailTypeDropDownList; in.company_railtypes is GetCompanyRailtypes(c->index,
\* false), in.avail_railtypes c->avail_railtypes, in.railtypes GetRailTypes(false)
\* and in.railtypes_introduces GetRailTypes(true).
GetRailTypeDropDownList(for_replacement, all_option, in) ==
    GetRailTypeDropDownList_NotEmpty(
        (IF all_option
         THEN <<DropDownListItem("STR_REPLACE_ALL_RAILTYPE", INVALID_RAILTYPE, FALSE)>>
         ELSE <<>>)
        \o RailTypeItems(in.sorted,
                         IF for_replacement THEN in.railtypes ELSE in.railtypes_introduces,
                         IF for_replacement THEN in.company_railtypes
                                            ELSE in.avail_railtypes,
                         for_replacement))

\* The inputs of GetRailTypeDropDownList; the sets the call does not read are
\* fixed.
DropDownInputs ==
    {i \in [for_replacement : BOOLEAN, all_option : BOOLEAN, sorted : SortedRailTypes,
            company_railtypes : SUBSET RailTypes, avail_railtypes : SUBSET RailTypes,
            railtypes : SUBSET RailTypes, railtypes_introduces : SUBSET RailTypes] :
        IF i.for_replacement
        THEN i.avail_railtypes = {} /\ i.railtypes_introduces = {}
        ELSE i.company_railtypes = {} /\ i.railtypes = {}}

\* std::find_if over the rail types q with HasRailtypeAvail(_local_company, r),
\* and RAILTYPE_BEGIN when it finds none.
RECURSIVE FindAvail(_, _)
FindAvail(q, avail) ==
    IF q = <<>> THEN RAILTYPE_BEGIN
    ELSE IF Head(q) \in avail THEN Head(q)
    ELSE FindAvail(Tail(q), avail)

\* The reverse iteration rbegin() .. rend().
Reverse(q) == [i \in 1 .. Len(q) |-> q[Len(q) + 1 - i]]

\* std::max_element: the first rail type with the largest count.
MaxElement(count) ==
    CHOOSE r \in RailTypes :
        /\ \A x \in RailTypes : count[x] <= count[r]
        /\ \A x \in RailTypes : x < r => count[x] < count[r]

\* BuildRailToolbarWindow::ModifyRailType on the toolbar, if there is one.
ModifyRailType(s, rt) == IF s.tbOpen THEN [s EXCEPT !.railtype = rt] ELSE s

\* The end of SetDefaultRailGui, with the rail type rt the switch chose.
SetDefaultRailGui_Set(s, rt) ==
    ModifyRailType([s EXCEPT !._cur_railtype = rt, !._last_built_railtype = rt], rt)

\* SetDefaultRailGui in which setting 1 searches from the front as well.
SetDefaultRailGui_FirstOnly(s, in) ==
    IF in.company # "valid" THEN s
    ELSE IF in.default_rail_type = 2 /\ in.count[MaxElement(in.count)] > 0
    THEN SetDefaultRailGui_Set(s, MaxElement(in.count))
    ELSE SetDefaultRailGui_Set(s, FindAvail(in.sorted, in.avail_railtypes))

\* SetDefaultRailGui; in.company is the kind of _local_company, in.count the
\* rail tiles of the map by rail type.
SetDefaultRailGui(s, in) ==
    IF in.company # "valid" THEN s
    ELSE IF in.default_rail_type = 2 /\ in.count[MaxElement(in.count)] > 0
    THEN SetDefaultRailGui_Set(s, MaxElement(in.count))
    ELSE IF in.default_rail_type \in {0, 2}
    THEN SetDefaultRailGui_Set(s, FindAvail(in.sorted, in.avail_railtypes))
    ELSE SetDefaultRailGui_Set(s, FindAvail(Reverse(in.sorted), in.avail_railtypes))

NoCount == [r \in RailTypes |-> 0]
\* The inputs of SetDefaultRailGui; what the call does not read is fixed.
DefaultRailInputs ==
    {i \in [company : {"valid", "spectator", "invalid"}, default_rail_type : 0 .. 2,
            sorted : SortedRailTypes, avail_railtypes : SUBSET RailTypes,
            count : [RailTypes -> 0 .. MaxCount]] :
        /\ i.company # "valid" =>
              i.default_rail_type = 0 /\ i.sorted = <<>> /\ i.avail_railtypes = {}
        /\ i.default_rail_type # 2 => i.count = NoCount
        /\ i.count # NoCount => i.sorted = <<>> /\ i.avail_railtypes = {}}

\* A drop down list of rail types is built (toolbar or replace window) from
\* the inputs drawn at the start.
RailTypeDropDown ==
    /\ ev.handler = "none" /\ ev.arg \in DropDownInputs
    /\ Commit([Begin("GetRailTypeDropDownList", ev.arg) EXCEPT
                   !.ev.list = GetRailTypeDropDownList(ev.arg.for_replacement,
                                                       ev.arg.all_option, ev.arg)])

\* InitializeRailGUI or a change of the default_rail_type setting, with the
\* inputs drawn at the start.
DefaultRailGui ==
    /\ ev.handler = "none" /\ ev.arg \in DefaultRailInputs
    /\ Commit(SetDefaultRailGui(Begin("SetDefaultRailGui", ev.arg), ev.arg))

(***************************************************************************)
(* The rail type specification: with no toolbar or with the toolbar of     *)
(* some rail type open, and with inputs drawn from the bounded sets, the   *)
(* drop down list of rail types is built or the default rail type is set.  *)
(***************************************************************************)
InitRailType ==
    \E s \in {GameStart} \cup {ShowBuildRailToolbar(GameStart, rt, TRUE) : rt \in RailTypes},
       in \in DropDownInputs \cup DefaultRailInputs :
        /\ LoadState(s)
        /\ ev = [NoEv EXCEPT !.arg = in]
        /\ "all_option" \in DOMAIN in => ~s.tbOpen

NextRailType ==
    \/ RailTypeDropDown
    \/ DefaultRailGui

SpecRailType == InitRailType /\ [][NextRailType]_vars

(***************************************************************************)
(* The depot picker (BuildRailDepotWindow).                                *)
(***************************************************************************)
DIAGDIRDIFF_90RIGHT == 1
\* direction_func.h: the direction d turned by delta quarter turns.
ChangeDiagDir(d, delta) == (d + delta) % 4

\* citymania::RotateAutodetection turns the automatic detection of the
\* highlight; the selected direction stays AUTO.
RotateAutodetection(s) == s

\* A click that selects the direction of the lowered button only.
BuildRailDepotWindow_OnClick_KeepLowered(s, widget) ==
    IF widget \in DepotButtons
    THEN [s EXCEPT !._build_depot_direction = widget - WID_BRAD_DEPOT_NE]
    ELSE s

BuildRailDepotWindow_OnClick(s, widget) ==
    IF widget \in DepotButtons
    THEN [s EXCEPT !._build_depot_direction = widget - WID_BRAD_DEPOT_NE,
                   !.depotLowered = (@ \ {s._build_depot_direction + WID_BRAD_DEPOT_NE})
                                        \cup {widget}]
    ELSE s

BuildRailDepotWindow_OnHotkey(s) ==
    IF s._build_depot_direction < DIAGDIR_END
    THEN [s EXCEPT !._build_depot_direction = ChangeDiagDir(@, DIAGDIRDIFF_90RIGHT),
                   !.depotLowered =
                       (@ \ {s._build_depot_direction + WID_BRAD_DEPOT_NE})
                           \cup {ChangeDiagDir(s._build_depot_direction, DIAGDIRDIFF_90RIGHT)
                                     + WID_BRAD_DEPOT_NE}]
    ELSE RotateAutodetection(s)

InitializeRailGui(s) == [s EXCEPT !._build_depot_direction = DIAGDIR_NW + 1]

\* A click on a widget of the open depot picker.
DepotPickerClick ==
    /\ WC_BUILD_DEPOT \in windows
    /\ \E widget \in DepotButtons \cup {WID_BRAD_CAPTION} :
          Commit(BuildRailDepotWindow_OnClick(
                    Begin("BuildRailDepotWindow::OnClick", widget), widget))

\* The rotate hotkey of the open depot picker.
DepotPickerRotate ==
    /\ WC_BUILD_DEPOT \in windows
    /\ Commit(BuildRailDepotWindow_OnHotkey(Begin("BuildRailDepotWindow::OnHotkey", "ROTATE")))

\* A game is started or loaded: no window is open.
NewGame ==
    /\ ~tbOpen /\ windows = {}
    /\ Commit(InitializeRailGui(Begin("InitializeRailGui", "none")))

(***************************************************************************)
(* The depot picker specification: the toolbar is opened and closed, the   *)
(* depot tool is picked and dropped, and the picker is clicked and rotated.*)
(***************************************************************************)
InitDepotPicker == Load(GameStart)

NextDepotPicker ==
    \/ ShowToolbar
    \/ CloseToolbar
    \/ Click({WID_RAT_BUILD_DEPOT}, {NoClickInput})
    \/ ClosePicker
    \/ DepotPickerClick
    \/ DepotPickerRotate
    \/ NewGame

SpecDepotPicker == InitDepotPicker /\ [][NextDepotPicker]_vars

(***************************************************************************)
(* The station picker (BuildRailStationWindow).                            *)
(***************************************************************************)
\* The lowest n in 1..7 the mask does not disallow; cur when there is none
\* ("for (uint i = 0; i < 7; i++) if (!HasBit(mask, i)) { ... break; }").
FirstAllowed(mask, cur) ==
    IF \E i \in 0 .. 6 : ~HasBit(mask, i)
    THEN 1 + CHOOSE i \in 0 .. 6 : ~HasBit(mask, i) /\ \A j \in 0 .. (i - 1) : HasBit(mask, j)
    ELSE cur

\* "while (HasBit(mask, n - 1)) n++;" for a mask that is not UINT8_MAX.
RECURSIVE WhileDisallowed(_, _)
WhileDisallowed(mask, n) ==
    IF HasBit(mask, n - 1) THEN WhileDisallowed(mask, n + 1) ELSE n

\* The number of tracks in CheckSelectedSize: a disallowed number is replaced
\* by the first number, counted up from 1, whose bit in the mask is clear.
CheckSelectedSize_Tracks(s, statspec) ==
    IF HasBit(statspec.disallowed_platforms, s.station_numtracks - 1)
    THEN IF statspec.disallowed_platforms # UINT8_MAX
         THEN [s EXCEPT !.station_numtracks = WhileDisallowed(statspec.disallowed_platforms, 1),
                        !.stationLowered =
                            (@ \ {s.station_numtracks + WID_BRAS_PLATFORM_NUM_BEGIN})
                               \cup {WhileDisallowed(statspec.disallowed_platforms, 1)
                                         + WID_BRAS_PLATFORM_NUM_BEGIN}]
         ELSE [s EXCEPT !.station_numtracks = 1,
                        !.stationLowered =
                            @ \ {s.station_numtracks + WID_BRAS_PLATFORM_NUM_BEGIN}]
    ELSE s

CheckSelectedSize_Length(s, statspec) ==
    IF HasBit(statspec.disallowed_lengths, s.station_platlength - 1)
    THEN IF statspec.disallowed_lengths # UINT8_MAX
         THEN [s EXCEPT !.station_platlength = WhileDisallowed(statspec.disallowed_lengths, 1),
                        !.stationLowered =
                            (@ \ {s.station_platlength + WID_BRAS_PLATFORM_LEN_BEGIN})
                               \cup {WhileDisallowed(statspec.disallowed_lengths, 1)
                                         + WID_BRAS_PLATFORM_LEN_BEGIN}]
         ELSE [s EXCEPT !.station_platlength = 1,
                        !.stationLowered =
                            @ \ {s.station_platlength + WID_BRAS_PLATFORM_LEN_BEGIN}]
    ELSE s

CheckSelectedSize(s, statspec) ==
    IF statspec = nullptr \/ s.station_dragdrop THEN s
    ELSE CheckSelectedSize_Length(CheckSelectedSize_Tracks(s, statspec), statspec)

\* The platform length made the first allowed one if the current one is
\* disallowed by the selected station; the old button is raised.
FirstAllowedLength(s) ==
    IF CurStatSpec(s) # nullptr
       /\ HasBit(CurStatSpec(s).disallowed_lengths, s.station_platlength - 1)
       /\ FirstAllowed(CurStatSpec(s).disallowed_lengths, 0) # 0
    THEN [s EXCEPT !.station_platlength = FirstAllowed(CurStatSpec(s).disallowed_lengths, 0),
                   !.stationLowered = @ \ {s.station_platlength + WID_BRAS_PLATFORM_LEN_BEGIN}]
    ELSE s

FirstAllowedTracks(s) ==
    IF CurStatSpec(s) # nullptr
       /\ HasBit(CurStatSpec(s).disallowed_platforms, s.station_numtracks - 1)
       /\ FirstAllowed(CurStatSpec(s).disallowed_platforms, 0) # 0
    THEN [s EXCEPT !.station_numtracks = FirstAllowed(CurStatSpec(s).disallowed_platforms, 0),
                   !.stationLowered = @ \ {s.station_numtracks + WID_BRAS_PLATFORM_NUM_BEGIN}]
    ELSE s

\* SetWidgetLoweredState of the buttons of the two sizes.
SetSizesLowered(s, lowered_state) ==
    [s EXCEPT !.stationLowered =
        IF lowered_state
        THEN @ \cup {s.station_numtracks + WID_BRAS_PLATFORM_NUM_BEGIN,
                     s.station_platlength + WID_BRAS_PLATFORM_LEN_BEGIN}
        ELSE @ \ {s.station_numtracks + WID_BRAS_PLATFORM_NUM_BEGIN,
                  s.station_platlength + WID_BRAS_PLATFORM_LEN_BEGIN}]

\* case WID_BRAS_PLATFORM_DIR_X, WID_BRAS_PLATFORM_DIR_Y
BuildRailStationWindow_OnClick_Dir(s, widget) ==
    CloseWindowById(
        [s EXCEPT !._railstation.orientation = widget - WID_BRAS_PLATFORM_DIR_X,
                  !.stationLowered =
                      (@ \ {s._railstation.orientation + WID_BRAS_PLATFORM_DIR_X})
                          \cup {widget}],
        WC_SELECT_STATION)

\* case WID_BRAS_PLATFORM_NUM_1 .. WID_BRAS_PLATFORM_NUM_7
BuildRailStationWindow_OnClick_Num(s, widget) ==
    CloseWindowById(
        SetSizesLowered(
            FirstAllowedLength(
                [s EXCEPT !.stationLowered =
                              @ \ {s.station_numtracks + WID_BRAS_PLATFORM_NUM_BEGIN,
                                   WID_BRAS_PLATFORM_DRAG_N_DROP},
                          !.station_numtracks = widget - WID_BRAS_PLATFORM_NUM_BEGIN,
                          !.station_dragdrop = FALSE]),
            TRUE),
        WC_SELECT_STATION)

\* case WID_BRAS_PLATFORM_LEN_1 .. WID_BRAS_PLATFORM_LEN_7
BuildRailStationWindow_OnClick_Len(s, widget) ==
    CloseWindowById(
        SetSizesLowered(
            FirstAllowedTracks(
                [s EXCEPT !.stationLowered =
                              @ \ {s.station_platlength + WID_BRAS_PLATFORM_LEN_BEGIN,
                                   WID_BRAS_PLATFORM_DRAG_N_DROP},
                          !.station_platlength = widget - WID_BRAS_PLATFORM_LEN_BEGIN,
                          !.station_dragdrop = FALSE]),
            TRUE),
        WC_SELECT_STATION)

\* The end of case WID_BRAS_PLATFORM_DRAG_N_DROP.
BuildRailStationWindow_OnClick_DragNDrop_Sizes(s) ==
    CloseWindowById(SetSizesLowered(s, ~s.station_dragdrop), WC_SELECT_STATION)

\* case WID_BRAS_PLATFORM_DRAG_N_DROP
BuildRailStationWindow_OnClick_DragNDrop(s) ==
    BuildRailStationWindow_OnClick_DragNDrop_Sizes(
        FirstAllowedTracks(
            FirstAllowedLength(
                [s EXCEPT !.station_dragdrop = ~@,
                          !.stationLowered =
                              IF WID_BRAS_PLATFORM_DRAG_N_DROP \in @
                              THEN @ \ {WID_BRAS_PLATFORM_DRAG_N_DROP}
                              ELSE @ \cup {WID_BRAS_PLATFORM_DRAG_N_DROP}])))

\* case WID_BRAS_NEWST_LIST: the class in the clicked row is selected.
BuildRailStationWindow_OnClick_NewstList(s, station_class_id) ==
    CloseWindowById(
        IF s._railstation.station_class # station_class_id
        THEN CheckSelectedSize(
                [s EXCEPT !._railstation.station_class = station_class_id,
                          !._railstation.station_count = GetSpecCount(s, station_class_id),
                          !._railstation.station_type = 0],
                GetSpec(s, station_class_id, 0))
        ELSE s,
        WC_SELECT_STATION)

\* case WID_BRAS_IMAGE: station y of the class is selected if it is there and
\* the availability callback lets it be.
BuildRailStationWindow_OnClick_Image(s, y, available) ==
    IF y >= s._railstation.station_count THEN s
    ELSE IF ~available THEN s
    ELSE CloseWindowById(
            CheckSelectedSize([s EXCEPT !._railstation.station_type = y],
                              GetSpec(s, s._railstation.station_class, y)),
            WC_SELECT_STATION)

OtherAxis(a) == 1 - a

\* case CM_BRASHK_ROTATE
BuildRailStationWindow_OnHotkey(s) ==
    CloseWindowById(
        [s EXCEPT !._railstation.orientation = OtherAxis(@),
                  !.stationLowered =
                      (@ \ {s._railstation.orientation + WID_BRAS_PLATFORM_DIR_X})
                          \cup {OtherAxis(s._railstation.orientation)
                                    + WID_BRAS_PLATFORM_DIR_X}],
        WC_SELECT_STATION)

\* OnPaint disables the size buttons the selected station disallows.
SizeEnabled(statspec, mask_of, n) ==
    statspec = nullptr \/ ~HasBit(statspec[mask_of], n - 1)

\* The buttons of the open picker a click can reach.
StationPickerButtons ==
    DirButtons \cup {WID_BRAS_PLATFORM_DRAG_N_DROP}
    \cup {w \in NumButtons : SizeEnabled(CurStatSpec(Cur), "disallowed_platforms",
                                         w - WID_BRAS_PLATFORM_NUM_BEGIN)}
    \cup {w \in LenButtons : SizeEnabled(CurStatSpec(Cur), "disallowed_lengths",
                                         w - WID_BRAS_PLATFORM_LEN_BEGIN)}

BuildRailStationWindow_OnClick(s, widget) ==
    CASE widget \in DirButtons -> BuildRailStationWindow_OnClick_Dir(s, widget)
      [] widget \in NumButtons -> BuildRailStationWindow_OnClick_Num(s, widget)
      [] widget \in LenButtons -> BuildRailStationWindow_OnClick_Len(s, widget)
      [] widget = WID_BRAS_PLATFORM_DRAG_N_DROP -> BuildRailStationWindow_OnClick_DragNDrop(s)
      [] OTHER -> s

StationPickerClick ==
    /\ WC_BUILD_STATION \in windows
    /\ \E widget \in StationPickerButtons :
          Commit(BuildRailStationWindow_OnClick(
                    Begin("BuildRailStationWindow::OnClick", widget), widget))

\* The rows of the class list: every class but the waypoints.
StationPickerClasses == DOMAIN StationClass(Cur) \ {STAT_CLASS_WAYP}

StationPickerClass ==
    /\ WC_BUILD_STATION \in windows /\ _railstation.newstations
    /\ \E station_class_id \in StationPickerClasses :
          Commit(BuildRailStationWindow_OnClick_NewstList(
                    Begin("WID_BRAS_NEWST_LIST", station_class_id), station_class_id))

MaxStationType == 3
StationPickerImage ==
    /\ WC_BUILD_STATION \in windows /\ _railstation.newstations
    /\ \E y \in 0 .. MaxStationType, available \in BOOLEAN :
          Commit(BuildRailStationWindow_OnClick_Image(
                    [Begin("WID_BRAS_IMAGE", y) EXCEPT !.ev.in = available], y, available))

StationPickerRotate ==
    /\ WC_BUILD_STATION \in windows
    /\ Commit(BuildRailStationWindow_OnHotkey(
                 Begin("BuildRailStationWindow::OnHotkey", "CM_BRASHK_ROTATE")))

(***************************************************************************)
(* The station picker specification: in a game with or without station     *)
(* NewGRFs the station tool is picked by click and by hotkey, and the       *)
(* picker is clicked, rotated and closed.                                   *)
(***************************************************************************)
StationActive(grf) ==
    [OnClick([ToolbarOpen EXCEPT !.newgrf_stations = grf], FALSE, WID_RAT_BUILD_STATION,
             NoClickInput) EXCEPT !.ev = NoEv]

InitStation == \E grf \in BOOLEAN : Load(StationActive(grf))

NextStation ==
    \/ StationPickerClick
    \/ StationPickerClass
    \/ StationPickerImage
    \/ StationPickerRotate
    \/ ClosePicker
    \/ Click({WID_RAT_BUILD_STATION}, {NoClickInput})
    \/ Hotkey({HOTKEY_BUILD_STATION_SIZED, HOTKEY_BUILD_STATION_DRAGDROP}, {NoClickInput})

SpecStation == InitStation /\ [][NextStation]_vars

(***************************************************************************)
(* The depot callback specification: a depot build command is in flight    *)
(* from some tile in some direction, and the command engine runs its       *)
(* callback with a result, settings and a tile in front of the depot drawn *)
(* from the bounded sets.                                                  *)
(***************************************************************************)
DepotActive ==
    [OnClick(ToolbarOpen, FALSE, WID_RAT_BUILD_DEPOT, NoClickInput) EXCEPT !.ev = NoEv]

\* The state after OnPlaceObject sent the depot build command.
DepotInFlight(tile, ddir) ==
    [OnPlaceObject(DepotActive, [NoObject EXCEPT !.tile = tile, !.ddir = ddir,
                                                 !.keep_depot_tools = TRUE,
                                                 !.accepted = TRUE])
        EXCEPT !.ev = NoEv]

DepotCallbackInputs ==
    {[FailIn(0) EXCEPT !.ok = o, !.persistent = p, !.ars = a, !.map = m] :
        o \in BOOLEAN, p \in {TRUE}, a \in BOOLEAN, m \in MapTiles}

DepotCallback ==
    /\ ev.handler = "none" /\ pending # <<>>
    /\ Commit(RunCallback([Resolving EXCEPT !.ev.in = ev.arg], Head(pending), ev.arg))

InitDepotRails ==
    \E tile \in Tiles, ddir \in DiagDirs, in \in DepotCallbackInputs :
        /\ LoadState(DepotInFlight(tile, ddir))
        /\ ev = [NoEv EXCEPT !.arg = in]

NextDepotRails == DepotCallback

SpecDepotRails == InitDepotRails /\ [][NextDepotRails]_vars

(***************************************************************************)
(* The depot specification: the depot tool is selected, depots are placed, *)
(* and while a depot build command is in flight the user may open the rail *)
(* toolbar for another rail type before the command engine runs the        *)
(* callback.                                                               *)
(***************************************************************************)
InitDepot == Load(DepotActive)

NextDepot ==
    \/ EngineIdle /\ Click({WID_RAT_BUILD_DEPOT}, {NoClickInput})
    \/ EngineIdle /\ PlaceObject({0}, {DIAGDIR_NE})
    \/ ShowToolbar
    \/ ResolveDepot({0}, PlaceMaps)

SpecDepot == InitDepot /\ [][NextDepot]_vars

(***************************************************************************)
(* The signal placement specification: the signal tool is active, with its *)
(* picker or without it; the picker is clicked, and single signals are     *)
(* placed on every track of a tile.                                        *)
(***************************************************************************)
SignalPlaceClickInputs == [fn_mod : BOOLEAN, inverted : {FALSE}, waypoints : {FALSE}]

InitSignalPlace == Load(SignalToolActive)

NextSignalPlace ==
    \/ EngineIdle /\ SignalClick(SignalButtons \cup {WID_BS_CONVERT})
    \/ EngineIdle /\ Click({WID_RAT_BUILD_SIGNALS}, SignalPlaceClickInputs)
    \/ EngineIdle /\ PlaceObject({0}, {DIAGDIR_NE})
    \/ EngineIdle /\ MouseUpSignals({0}, Tracks)
    \/ ResolveSound({0})

SpecSignalPlace == InitSignalPlace /\ [][NextSignalPlace]_vars

(***************************************************************************)
(* Properties.                                                             *)
(***************************************************************************)
\* The program state: every variable but the log of the last handler.
program_state ==
    <<tbOpen, otherTb, lowered, disabled, last_user_action, railtype, _cur_railtype,
      _remove_button_clicked, _cm_invert_remove, thd_window, thd_sizing, windows, snap,
      station_dragdrop, blueprint, stationPlacement, _cur_signal_variant, _cur_signal_type,
      _convert_signal_button, sigLowered, drag_signals_density, pending, select_cmd,
      _last_built_railtype, _build_depot_direction, depotLowered, _railstation,
      station_numtracks, station_platlength, stationLowered, newgrf_stations>>

LoweredTools == lowered \cap ToolWidgets

\* C1: in every state reached by clicks, hotkeys and placement aborts at most
\* one of the fifteen tool buttons is lowered, and a click on a raised tool
\* button leaves that button, and no other tool button, lowered.
C1_OneToolLowered ==
    [][/\ Cardinality(LoweredTools) <= 1
       /\ Cardinality(LoweredTools') <= 1
       /\ (ev'.handler = "OnClick" /\ ev'.arg \in ToolWidgets /\ ev'.arg \notin lowered)
              => LoweredTools' = {ev'.arg}]_vars

\* C1 witness: a click lowered the depot button while another tool was
\* lowered, and that tool was raised by the abort of its placement.
C1_Witness ==
    /\ ev.handler = "OnClick" /\ ev.arg = WID_RAT_BUILD_DEPOT
    /\ LoweredTools = {WID_RAT_BUILD_DEPOT}
    /\ ev.abort.done /\ ev.abort.before.tool

\* C2: a click on the enabled remove button (by mouse or hotkey) flips
\* _remove_button_clicked and leaves the lowered tool button and
\* last_user_action as they were; a click on the disabled remove button
\* changes neither the remove flag nor the tool selection.
C2_RemoveClick ==
    [][(ev'.handler \in {"OnClick", "OnHotkey"} /\ ev'.arg = WID_RAT_REMOVE) =>
          /\ LoweredTools' = LoweredTools
          /\ last_user_action' = last_user_action
          /\ IF WID_RAT_REMOVE \in disabled
             THEN _remove_button_clicked' = _remove_button_clicked
             ELSE _remove_button_clicked' = ~_remove_button_clicked]_vars

\* C2 witness: the remove button was clicked while a station tool was active
\* and remove mode is now on.
C2_Witness ==
    /\ ev.handler = "OnClick" /\ ev.arg = WID_RAT_REMOVE
    /\ _remove_button_clicked /\ WID_RAT_REMOVE \in lowered
    /\ LoweredTools = {WID_RAT_BUILD_STATION}

\* The opcodes a tool may send on mouse-up, by remove mode.
ToolOpcodes(tools, remove) ==
    CASE WID_RAT_BUILD_SIGNALS \in tools ->
            IF remove THEN {"CMD_REMOVE_SIGNALS", "CMD_REMOVE_SIGNAL_TRACK"}
                      ELSE {"CMD_BUILD_SIGNALS", "CMD_BUILD_SIGNAL_TRACK"}
      [] WID_RAT_BUILD_STATION \in tools ->
            IF remove THEN {"CMD_REMOVE_FROM_RAIL_STATION"} ELSE {"CMD_BUILD_RAIL_STATION"}
      [] WID_RAT_BUILD_WAYPOINT \in tools ->
            IF remove THEN {"CMD_REMOVE_FROM_RAIL_WAYPOINT"} ELSE {"CMD_BUILD_RAIL_WAYPOINT"}
      [] OTHER ->
            IF remove THEN {"CMD_REMOVE_SINGLE_RAIL", "CMD_REMOVE_RAILROAD_TRACK"}
                      ELSE {"CMD_BUILD_SINGLE_RAIL", "CMD_BUILD_RAILROAD_TRACK"}

C4_AbortTerminal ==
    ev.abort.done =>
        /\ ev.abort.after.lowered \cap ToolWidgets = {}
        /\ WID_RAT_REMOVE \notin ev.abort.after.lowered
        /\ WID_RAT_REMOVE \in ev.abort.after.disabled
        /\ ev.abort.after.windows \cap AuxWindows = {}
        /\ ~ev.abort.after.blueprint
        /\ ~ev.abort.after.stationPlacement

\* C4 witness: the abort found a tool lowered and the bridge window open.
C4_Witness ==
    /\ ev.abort.done
    /\ ev.abort.before.tool
    /\ WC_BUILD_BRIDGE \in ev.abort.before.windows

\* The level commands handed to the command engine by the last handler.
LevelNotes == {i \in DOMAIN ev.submitted : ev.submitted[i].c.cmd = "CMD_LEVEL_LAND"}

\* C5: when the test runs of both level commands fail, DoAutodirTerraform
\* attempts the rail placement at once and hands no level command to the
\* command engine.
C5_BothTestsFail ==
    (ev.levels.ran /\ ~ev.levels.l1_ok /\ ~ev.levels.l2_ok) =>
        /\ ev.rail = 1
        /\ LevelNotes = {}
        /\ pending = <<>> \/ pending[1].cmd # "CMD_LEVEL_LAND"

\* C5 witness: both test runs failed and the rail command was sent.
C5_Witness ==
    /\ ev.levels.ran /\ ~ev.levels.l1_ok /\ ~ev.levels.l2_ok
    /\ ev.rail = 1
    /\ Len(ev.submitted) = 1
    /\ ev.submitted[1].c.cmd = "CMD_BUILD_RAILROAD_TRACK"
    /\ ev.submitted[1].accepted

\* C6: when exactly one test run succeeds, the level command of that corner,
\* and no other level command, is handed to the command engine with the rail
\* placement chained to it; the rail placement is attempted only when that
\* command completes: at once when the engine rejects it, else not before
\* the engine resolves it, and then by the resolution of a chained command.
C6_OneTestSucceeds ==
    /\ (ev.levels.ran /\ ev.levels.l1_ok # ev.levels.l2_ok) =>
          LET good == IF ev.levels.l1_ok THEN ev.levels.c1 ELSE ev.levels.c2
          IN /\ Cardinality(LevelNotes) = 1
             /\ \A i \in LevelNotes :
                   LET n == ev.submitted[i]
                   IN /\ n.c.then # NoThen
                      /\ [n.c EXCEPT !.then = NoThen] = good
                      /\ n.accepted => ev.rail = 0 /\ pending = <<n.c>>
                      /\ ~n.accepted =>
                            /\ ev.rail = 1
                            /\ \A j \in DOMAIN pending : pending[j].cmd # "CMD_LEVEL_LAND"
    /\ (ev.handler = "Resolve" /\ ev.rail > 0) =>
          /\ ev.rail = 1
          /\ ev.arg.cmd = "CMD_LEVEL_LAND"
          /\ ev.arg.then # NoThen

\* C6 witness: only the second test run succeeded, the second level command
\* is in flight and the rail placement has not been attempted.
C6_Witness ==
    /\ ev.levels.ran /\ ~ev.levels.l1_ok /\ ev.levels.l2_ok
    /\ ev.levels.c1 # ev.levels.c2
    /\ ev.rail = 0
    /\ Len(pending) = 1
    /\ [pending[1] EXCEPT !.then = NoThen] = ev.levels.c2

\* C7: when a depot, station or tunnel build command fails, the tool is not
\* reset, no sound is played, no endpoints are stored and no command follows
\* the failed one.
C7_FailureSuppressesCompletion ==
    (ev.cb.name \in {"CcRailDepot", "CcStation", "CcBuildRailTunnel"} /\ ~ev.cb.ok) =>
        /\ ~ev.reset
        /\ ~ev.sound
        /\ ev.stored = NoEndpoints
        /\ \A i \in DOMAIN ev.submitted : ev.submitted[i].c = ev.cb.c

\* C8: the tunnel callback sets the red error square, on the tunnel end tile,
\* exactly when the command failed; on success it stores the endpoints from
\* the start tile to the tunnel end tile, with track Y when both tiles have
\* the same X coordinate and track X otherwise.
C8_TunnelCallback ==
    ev.cb.name = "CcBuildRailTunnel" =>
        IF ev.cb.ok
        THEN /\ ev.red = INVALID_TILE
             /\ ev.stored = <<ev.cb.c.tile, ev.cb.endtile,
                              IF TileX(ev.cb.c.tile) = TileX(ev.cb.endtile)
                              THEN TRACK_Y ELSE TRACK_X, FALSE>>
        ELSE /\ ev.red = ev.cb.endtile
             /\ ev.stored = NoEndpoints

\* C8 witness: a tunnel from tile 1 to a tile in another column was built.
C8_Witness ==
    /\ ev.cb.name = "CcBuildRailTunnel" /\ ev.cb.ok
    /\ ev.cb.c.tile = 1
    /\ TileX(ev.cb.endtile) # TileX(1)
    /\ ev.stored = <<1, ev.cb.endtile, TRACK_X, FALSE>>

\* C9: while the signal picker is open exactly one signal button is lowered,
\* the one of (_cur_signal_variant, _cur_signal_type).
C9_OneSignalLowered ==
    WC_BUILD_SIGNAL \in windows => sigLowered = {CurSignalButton(Cur)}

\* C10: ShowBuildRailToolbar returns nullptr and changes nothing when the
\* company or the rail type is invalid; otherwise it closes every build
\* toolbar with its pickers and its placement, sets _cur_railtype, clears
\* _remove_button_clicked and returns a new toolbar of that rail type with
\* the remove button disabled and no tool active.
C10_ShowBuildRailToolbar ==
    [][ev'.handler = "ShowBuildRailToolbar" =>
          IF ev'.arg[2] /\ ev'.arg[1] \in RailTypes
          THEN /\ ev'.ret = "window"
               /\ tbOpen' /\ ~otherTb'
               /\ railtype' = ev'.arg[1]
               /\ _cur_railtype' = ev'.arg[1]
               /\ ~_remove_button_clicked'
               /\ WID_RAT_REMOVE \in disabled'
               /\ lowered' = {}
               /\ last_user_action' = WIDGET_LIST_END
               /\ windows' \cap PickerWindows = {}
               /\ thd_window' # WC_BUILD_TOOLBAR
          ELSE /\ ev'.ret = "nullptr"
               /\ UNCHANGED program_state]_vars

\* C10 witness: a toolbar of rail type 1 replaced a toolbar that had a tool
\* active in remove mode.
C10_Witness ==
    /\ ev.handler = "ShowBuildRailToolbar" /\ ev.ret = "window"
    /\ _cur_railtype = 1
    /\ ev.reset /\ ev.abort.before.tool
    /\ ~_remove_button_clicked /\ _cm_invert_remove

\* C11: the "polyrail" hotkey leaves the polyline tool open in snapping mode
\* (RSM_SNAP_TO_RAIL), unless the tool was open in snapping mode, and then it
\* closes the tool; the "new_polyrail" hotkey does the same with the
\* non-snapping mode (RSM_NO_SNAP).
C11_PolyrailHotkeys ==
    [][(ev'.handler = "OnHotkey" /\ ev'.arg \in {HOTKEY_POLYRAIL, HOTKEY_NEW_POLYRAIL}) =>
          LET mode == IF ev'.arg = HOTKEY_POLYRAIL THEN RSM_SNAP_TO_RAIL ELSE RSM_NO_SNAP
          IN IF WID_RAT_POLYRAIL \in lowered /\ snap = mode
             THEN LoweredTools' = {}
             ELSE /\ LoweredTools' = {WID_RAT_POLYRAIL}
                  /\ thd_window' = WC_BUILD_TOOLBAR
                  /\ snap' = mode]_vars

\* C11 witness: the "new_polyrail" hotkey closed the polyline tool, which was
\* open in non-snapping mode.
C11_Witness ==
    /\ ev.handler = "OnHotkey" /\ ev.arg = HOTKEY_NEW_POLYRAIL
    /\ ev.reset /\ ev.abort.done /\ ev.abort.before.tool
    /\ snap = RSM_NO_SNAP /\ LoweredTools = {}

\* C12: a click on the polyrail button with the fn (Ctrl) modifier leaves the
\* polyline tool open; when the tool was open the snapping mode is switched
\* to the other one, and when it was closed it is opened in non-snapping mode.
C12_CtrlClickPolyrail ==
    [][(ev'.handler = "OnClick" /\ ev'.arg = WID_RAT_POLYRAIL /\ ev'.fn_mod) =>
          /\ LoweredTools' = {WID_RAT_POLYRAIL}
          /\ IF WID_RAT_POLYRAIL \in lowered
             THEN snap' = (IF snap = RSM_SNAP_TO_RAIL THEN RSM_NO_SNAP
                                                      ELSE RSM_SNAP_TO_RAIL)
             ELSE snap' = RSM_NO_SNAP]_vars

\* C13: a plain click on the polyrail button (no modifier, no hotkey) opens
\* the polyline tool in non-snapping mode when it is closed and closes it
\* when it is open, in either snapping mode.
C13_PlainClickPolyrail ==
    [][(ev'.handler = "OnClick" /\ ev'.arg = WID_RAT_POLYRAIL /\ ~ev'.fn_mod) =>
          IF WID_RAT_POLYRAIL \in lowered
          THEN LoweredTools' = {}
          ELSE /\ LoweredTools' = {WID_RAT_POLYRAIL}
               /\ thd_window' = WC_BUILD_TOOLBAR
               /\ snap' = RSM_NO_SNAP]_vars

\* C13 witness: a plain click closed the polyline tool, which was open in
\* snapping mode.
C13_Witness ==
    /\ ev.handler = "OnClick" /\ ev.arg = WID_RAT_POLYRAIL /\ ~ev.fn_mod
    /\ ev.reset /\ ev.abort.done /\ ev.abort.before.tool
    /\ snap = RSM_SNAP_TO_RAIL /\ LoweredTools = {}

\* C14: the station_sized and station_dragdrop hotkeys open the station tool
\* (button and picker) when it is closed or open in the other mode, and close
\* it when it is open in the requested mode; a station tool left open by such
\* a hotkey has station_dragdrop equal to the requested mode and
\* last_user_action equal to WID_RAT_BUILD_STATION.
C14_StationHotkeys ==
    [][(ev'.handler = "OnHotkey"
            /\ ev'.arg \in {HOTKEY_BUILD_STATION_SIZED, HOTKEY_BUILD_STATION_DRAGDROP}) =>
          LET requested == (ev'.arg = HOTKEY_BUILD_STATION_DRAGDROP)
          IN /\ IF WID_RAT_BUILD_STATION \in lowered /\ station_dragdrop = requested
                THEN LoweredTools' = {} /\ WC_BUILD_STATION \notin windows'
                ELSE /\ LoweredTools' = {WID_RAT_BUILD_STATION}
                     /\ WC_BUILD_STATION \in windows'
                     /\ thd_window' = WC_BUILD_TOOLBAR
             /\ WID_RAT_BUILD_STATION \in lowered' =>
                   /\ station_dragdrop' = requested
                   /\ last_user_action' = WID_RAT_BUILD_STATION]_vars

\* C14 witness: the station_sized hotkey re-opened the station tool, which
\* was open in drag-and-drop mode, in fixed-size mode.
C14_Witness ==
    /\ ev.handler = "OnHotkey" /\ ev.arg = HOTKEY_BUILD_STATION_SIZED
    /\ ev.reset /\ ev.abort.done /\ WC_BUILD_STATION \in ev.abort.before.windows
    /\ LoweredTools = {WID_RAT_BUILD_STATION} /\ WC_BUILD_STATION \in windows
    /\ ~station_dragdrop

\* C15: GetRailTypeDropDownList never returns an empty list.  With no used
\* rail type in _sorted_railtypes and all_option false the list is the one
\* disabled 'none' item; otherwise it is the 'all types' item (if asked for)
\* followed by one item per used rail type in _sorted_railtypes order, an item
\* being masked exactly when its rail type is not available to the company.
C15_RailTypeDropDownList ==
    ev.handler = "GetRailTypeDropDownList" =>
        LET in == ev.arg
            used == IF in.for_replacement THEN in.railtypes ELSE in.railtypes_introduces
            avail == IF in.for_replacement THEN in.company_railtypes
                                           ELSE in.avail_railtypes
            Used(r) == r \in used
            shown == SelectSeq(in.sorted, Used)
            first == IF in.all_option THEN 1 ELSE 0
        IN /\ Len(ev.list) >= 1
           /\ IF shown = <<>> /\ ~in.all_option
              THEN /\ Len(ev.list) = 1
                   /\ ev.list[1].string = "STR_NONE"
                   /\ ev.list[1].result = INVALID_RAILTYPE
                   /\ ev.list[1].masked
              ELSE /\ Len(ev.list) = first + Len(shown)
                   /\ in.all_option =>
                         /\ ev.list[1].string = "STR_REPLACE_ALL_RAILTYPE"
                         /\ ev.list[1].result = INVALID_RAILTYPE
                         /\ ~ev.list[1].masked
                   /\ \A i \in 1 .. Len(shown) :
                         /\ ev.list[first + i].result = shown[i]
                         /\ ev.list[first + i].masked = (shown[i] \notin avail)

\* C15 witness: a list with the 'all types' item, then rail type 1, masked,
\* then rail type 0, not masked.
C15_Witness ==
    /\ ev.handler = "GetRailTypeDropDownList" /\ ev.arg.all_option
    /\ ev.arg.sorted = <<1, 0>>
    /\ Len(ev.list) = 3
    /\ ev.list[2].result = 1 /\ ev.list[2].masked
    /\ ev.list[3].result = 0 /\ ~ev.list[3].masked

\* C16: SetDefaultRailGui changes nothing for a spectator or an invalid
\* company.  Otherwise _cur_railtype and _last_built_railtype are set to the
\* first available rail type of _sorted_railtypes (setting 0), to the last
\* available one (setting 1), or to a rail type with the most rail tiles on
\* the map (setting 2), with the first available one when the map has no
\* rail and RAILTYPE_BEGIN when none is available; an open toolbar shows that
\* rail type.
C16_SetDefaultRailGui ==
    [][ev'.handler = "SetDefaultRailGui" =>
          LET in == ev'.arg
              rt == _cur_railtype'
              avail == in.avail_railtypes
              q == in.sorted
              none == \A i \in DOMAIN q : q[i] \notin avail
              first == IF none THEN rt = RAILTYPE_BEGIN
                       ELSE \E i \in DOMAIN q :
                               /\ q[i] = rt /\ rt \in avail
                               /\ \A j \in DOMAIN q : j < i => q[j] \notin avail
              last == IF none THEN rt = RAILTYPE_BEGIN
                      ELSE \E i \in DOMAIN q :
                              /\ q[i] = rt /\ rt \in avail
                              /\ \A j \in DOMAIN q : j > i => q[j] \notin avail
          IN IF in.company # "valid" THEN UNCHANGED program_state
             ELSE /\ _last_built_railtype' = rt
                  /\ tbOpen' = tbOpen
                  /\ tbOpen => railtype' = rt
                  /\ CASE in.default_rail_type = 0 -> first
                       [] in.default_rail_type = 1 -> last
                       [] in.default_rail_type = 2 ->
                            IF \E r \in RailTypes : in.count[r] > 0
                            THEN \A r \in RailTypes : in.count[r] <= in.count[rt]
                            ELSE first]_vars

\* C16 witness: with setting 1 and both rail types available the open
\* toolbar was switched from rail type 0 to the last one of _sorted_railtypes.
C16_Witness ==
    /\ ev.handler = "SetDefaultRailGui" /\ ev.arg.company = "valid"
    /\ ev.arg.default_rail_type = 1
    /\ ev.arg.sorted = <<0, 1>> /\ ev.arg.avail_railtypes = {0, 1}
    /\ tbOpen /\ railtype = 1 /\ _cur_railtype = 1 /\ _last_built_railtype = 1

\* A rail drag ended in polyline mode, with estimate mode and terraform mode
\* off and a valid _rail_track_endtile.
PolylinePlacement ==
    /\ ev.handler = "OnPlaceMouseUp" /\ ev.arg = DDSP_PLACE_RAIL /\ ev.in.pt_valid
    /\ WID_RAT_POLYRAIL \in lowered
    /\ ~ev.in.rail.estimate /\ ~ev.in.rail.poly_terra
    /\ ev.in.rail.rail.endtile # INVALID_TILE

\* The snap point StoreRailPlacementEndpoints is called with after the drag.
PolylineSnapPoint ==
    <<ev.in.rail.start, ev.in.rail.rail.endtile, ev.in.rail.track, TRUE>>

\* C17: in polyline mode with remove, estimate and terraform mode off, when
\* the test run of the rail command reports 'already built' and
\* _rail_track_endtile is valid, no command is handed to the command engine
\* and StoreRailPlacementEndpoints is called with the start tile and
\* _rail_track_endtile.
C17_OverbuildMovesSnapPoint ==
    (PolylinePlacement /\ ~_remove_button_clicked /\ ev.in.rail.rail.already_built) =>
        /\ ev.submitted = <<>>
        /\ pending = <<>>
        /\ ev.stored = PolylineSnapPoint

\* C17 witness: a polyline drag over existing track moved the snap point to
\* tile 1 without a command.
C17_Witness ==
    /\ PolylinePlacement /\ ~_remove_button_clicked /\ ev.in.rail.rail.already_built
    /\ ev.submitted = <<>> /\ ev.stored # NoEndpoints /\ ev.stored[2] = 1

\* C18: after a rail placement in polyline mode (estimate mode off,
\* _rail_track_endtile valid) StoreRailPlacementEndpoints has been called,
\* whether the rail command went through or failed.
C18_SnapPointsSavedOnFailure ==
    PolylinePlacement => ev.stored = PolylineSnapPoint

\* The last event was a click on the polyrail button or a polyrail hotkey.
PolyrailEvent(e) ==
    \/ e.handler = "OnClick" /\ e.arg = WID_RAT_POLYRAIL
    \/ e.handler = "OnHotkey" /\ e.arg \in {HOTKEY_POLYRAIL, HOTKEY_NEW_POLYRAIL}

\* C19: a polyrail click or hotkey with the tool open before and after (only
\* the snapping mode can change) leaves _remove_button_clicked,
\* _cm_invert_remove and the lowered and disabled state of the remove button
\* as they were.
C19_SnapOnlyKeepsRemove ==
    [][(PolyrailEvent(ev') /\ WID_RAT_POLYRAIL \in lowered /\ WID_RAT_POLYRAIL \in lowered') =>
          /\ ~ev'.tail
          /\ _remove_button_clicked' = _remove_button_clicked
          /\ _cm_invert_remove' = _cm_invert_remove
          /\ (WID_RAT_REMOVE \in lowered') = (WID_RAT_REMOVE \in lowered)
          /\ (WID_RAT_REMOVE \in disabled') = (WID_RAT_REMOVE \in disabled)]_vars

\* C19 witness: a ctrl-click switched the open polyline tool to non-snapping
\* mode while remove mode was on, and remove mode is still on.
C19_Witness ==
    /\ ev.handler = "OnClick" /\ ev.arg = WID_RAT_POLYRAIL /\ ev.fn_mod /\ ~ev.tail
    /\ WID_RAT_POLYRAIL \in lowered /\ snap = RSM_NO_SNAP
    /\ _remove_button_clicked /\ ~_cm_invert_remove /\ WID_RAT_REMOVE \in lowered

\* The button a click or hotkey event reaches OnClick with.
EventWidget(e) ==
    IF e.arg \in {HOTKEY_POLYRAIL, HOTKEY_NEW_POLYRAIL} THEN WID_RAT_POLYRAIL
    ELSE IF e.arg \in {HOTKEY_BUILD_STATION_SIZED, HOTKEY_BUILD_STATION_DRAGDROP}
    THEN WID_RAT_BUILD_STATION
    ELSE e.arg

\* C20: OnClick on a tool button runs to its end unless it is the polyrail
\* case with the tool open before and after; whenever it ran to its end for
\* a widget other than the remove button, _remove_button_clicked equals
\* _cm_invert_remove, and both are false when the click came from a hotkey.
C20_RemoveFollowsInvert ==
    [][/\ (ev'.handler = "OnClick" /\ ev'.arg \in ToolWidgets
              /\ ~(ev'.arg = WID_RAT_POLYRAIL /\ WID_RAT_POLYRAIL \in lowered
                                              /\ WID_RAT_POLYRAIL \in lowered'))
          => ev'.tail
       /\ (ev'.handler \in {"OnClick", "OnHotkey"} /\ ev'.tail
              /\ EventWidget(ev') # WID_RAT_REMOVE)
          => /\ _remove_button_clicked' = _cm_invert_remove'
             /\ ev'.handler = "OnHotkey" => ~_remove_button_clicked' /\ ~_cm_invert_remove']_vars

\* C20 witness: with remove mode on, a hotkey selected another tool and the
\* tool starts in build mode.
C20_Witness ==
    /\ ev.handler = "OnHotkey" /\ ev.tail /\ ev.arg = WID_RAT_BUILD_DEPOT
    /\ WID_RAT_BUILD_DEPOT \in lowered
    /\ ~_remove_button_clicked /\ ~_cm_invert_remove /\ WID_RAT_REMOVE \notin lowered

\* The command engine has just run the callback cb of a command.
CallbackRan(cb) == ev.handler = "Resolve" /\ ev.arg.cb = cb

\* C21: after the callback of a station build, the station tool has been
\* reset, and the station builder window closed with it, if and only if the
\* build succeeded, the selected station class is the default class, the
\* selected station type is 0 and persistent building tools are off.
C21_StationToolReset ==
    CallbackRan("CcStation") =>
        /\ ev.reset <=> (/\ ev.in.ok
                         /\ ev.in.station_class = STAT_CLASS_DFLT
                         /\ ev.in.station_type = 0
                         /\ ~ev.in.persistent)
        /\ ev.reset => (WC_BUILD_STATION \notin windows /\ thd_window = WC_MAIN_WINDOW
                        /\ WID_RAT_BUILD_STATION \notin lowered)
        /\ ~ev.reset => (WC_BUILD_STATION \in windows /\ thd_window = WC_BUILD_TOOLBAR
                         /\ WID_RAT_BUILD_STATION \in lowered)

\* C21 witness: a station of the default class and type 0 was built with
\* persistent tools off, and the station builder is gone.
C21_Witness ==
    /\ CallbackRan("CcStation") /\ ev.in.ok /\ ev.reset
    /\ WC_BUILD_STATION \notin windows

\* C21 second witness state: a successful build of another station type
\* leaves the station builder open.
C21_KeptOpen ==
    /\ CallbackRan("CcStation") /\ ev.in.ok /\ ev.in.station_type = 1 /\ ~ev.in.persistent
    /\ WC_BUILD_STATION \in windows

\* The k-th extra rail of CcRailDepot for a depot facing dir is wanted on a
\* tile m: the tile is no depot, has no signals unless auto_remove_signals is
\* on, and has a track reaching the direction checked for that rail.
ExtraRailWanted(k, dir, m, ars) ==
    /\ m.rail_tile_type # RAIL_TILE_DEPOT
    /\ m.rail_tile_type = RAIL_TILE_SIGNALS => ars
    /\ m.trackbits \cap DiagdirReachesTracks(_place_depot_extra_dir[dir + 4 * k + 1]) # {}

\* The tracks of the extra rails CcRailDepot builds, in the order of the calls.
ExtraRailTracks(dir, in) ==
    IF in.ok /\ in.map.railway
    THEN SelectSeq(<<_place_depot_extra_track[dir + 1], _place_depot_extra_track[dir + 5],
                     _place_depot_extra_track[dir + 9]>>,
                   LAMBDA t : \E k \in 0 .. 2 :
                                 /\ _place_depot_extra_track[dir + 4 * k + 1] = t
                                 /\ ExtraRailWanted(k, dir, in.map, in.ars))
    ELSE <<>>

\* C22: after the callback of a depot build facing dir, at most three
\* commands have been submitted, all CMD_BUILD_SINGLE_RAIL on the tile next
\* to the depot in direction dir, only after a successful build and only if
\* that tile is a railway tile; a candidate track is built exactly when the
\* tile is no depot, has no signals or auto_remove_signals is on, and has a
\* track reaching the checked direction.
C22_ExtraDepotRails ==
    CallbackRan("CcRailDepot") =>
        /\ Len(ev.submitted) <= 3
        /\ ev.submitted # <<>> => ev.in.ok /\ ev.in.map.railway
        /\ \A i \in 1 .. Len(ev.submitted) :
              /\ ev.submitted[i].c.cmd = "CMD_BUILD_SINGLE_RAIL"
              /\ ev.submitted[i].c.tile = TileAddByDiagDir(ev.arg.tile, ev.arg.p2)
        /\ [i \in 1 .. Len(ev.submitted) |-> ev.submitted[i].c.p2 % 8]
              = ExtraRailTracks(ev.arg.p2, ev.in)

\* C22 witness: a depot facing south-east got its three extra rails on the
\* tile in front of it.
C22_Witness ==
    /\ CallbackRan("CcRailDepot") /\ ev.arg.p2 = DIAGDIR_SE /\ ev.arg.tile = 0
    /\ Len(ev.submitted) = 3 /\ ev.submitted[1].c.tile = MapSizeX
    /\ ev.in.map.rail_tile_type = RAIL_TILE_SIGNALS

\* C29: every extra rail command of the depot callback has the rail type of
\* the depot build command it follows.
C29_ExtraRailsKeepRailType ==
    CallbackRan("CcRailDepot") =>
        \A i \in 1 .. Len(ev.submitted) : ev.submitted[i].c.p1 = ev.arg.p1

\* The direction is one of the five and the open depot picker shows it.
DepotDirectionShown ==
    /\ _build_depot_direction \in DepotDirs
    /\ WC_BUILD_DEPOT \in windows =>
          depotLowered = {_build_depot_direction + WID_BRAD_DEPOT_NE}

\* C23: _build_depot_direction is always one of NE, SE, SW, NW and AUTO,
\* and while the depot picker is open exactly the button of that direction
\* is lowered; the rotate hotkey moves a fixed direction on by a quarter
\* turn to the right (NE, SE, SW, NW, NE), so that four presses give the
\* direction back, and leaves the AUTO selection alone.
C23_DepotDirection ==
    /\ DepotDirectionShown
    /\ [][/\ DepotDirectionShown'
          /\ ev'.handler = "BuildRailDepotWindow::OnHotkey" =>
                IF _build_depot_direction = DEPOTDIR_AUTO
                THEN _build_depot_direction' = DEPOTDIR_AUTO
                ELSE /\ _build_depot_direction' = (_build_depot_direction + 1) % 4
                     /\ _build_depot_direction' # _build_depot_direction
                     /\ ChangeDiagDir(ChangeDiagDir(ChangeDiagDir(
                            _build_depot_direction', DIAGDIRDIFF_90RIGHT),
                            DIAGDIRDIFF_90RIGHT), DIAGDIRDIFF_90RIGHT)
                          = _build_depot_direction]_vars

\* C23 witness: the rotate hotkey brought the picker from NW round to NE.
C23_Witness ==
    /\ ev.handler = "BuildRailDepotWindow::OnHotkey" /\ WC_BUILD_DEPOT \in windows
    /\ _build_depot_direction = DIAGDIR_NE /\ depotLowered = {WID_BRAD_DEPOT_NE}

\* The last event selected a station class or a station type in the picker.
StationSelected ==
    \/ ev'.handler = "WID_BRAS_NEWST_LIST"
          /\ _railstation'.station_class # _railstation.station_class
    \/ ev'.handler = "WID_BRAS_IMAGE" /\ ev'.in = TRUE
          /\ ev'.arg < _railstation.station_count

\* n is a size in 1..7 the mask does not disallow, if the mask allows any.
SizeAllowed(n, mask) ==
    (\E k \in 1 .. 7 : ~HasBit(mask, k - 1)) => (n \in 1 .. 7 /\ ~HasBit(mask, n - 1))

\* C24: in fixed-size mode, after a station class or a station type was
\* selected in the picker, station_numtracks and station_platlength are each
\* a value in 1..7 that the selected station spec does not disallow,
\* whenever the spec allows a value in 1..7 for that dimension.
C24_SelectedSizeAllowed ==
    [][(StationSelected /\ ~station_dragdrop') =>
          /\ SizeAllowed(station_numtracks', CurStatSpec(Cur)'.disallowed_platforms)
          /\ SizeAllowed(station_platlength', CurStatSpec(Cur)'.disallowed_lengths)]_vars

\* C25: while the station picker is open, the drag-and-drop button is
\* lowered if and only if station_dragdrop is set; when it is not set,
\* exactly the number-of-tracks button of station_numtracks and the
\* platform-length button of station_platlength are lowered among the size
\* buttons, and when it is set none of them is; exactly the orientation
\* button of _railstation.orientation is lowered.
C25_StationPickerButtons ==
    WC_BUILD_STATION \in windows =>
        /\ (WID_BRAS_PLATFORM_DRAG_N_DROP \in stationLowered) <=> station_dragdrop
        /\ ~station_dragdrop =>
              /\ stationLowered \cap NumButtons
                    = {station_numtracks + WID_BRAS_PLATFORM_NUM_BEGIN}
              /\ stationLowered \cap LenButtons
                    = {station_platlength + WID_BRAS_PLATFORM_LEN_BEGIN}
        /\ station_dragdrop => stationLowered \cap (NumButtons \cup LenButtons) = {}
        /\ stationLowered \cap DirButtons
              = {_railstation.orientation + WID_BRAS_PLATFORM_DIR_X}

\* The last event placed a single signal with the build command.
SingleSignalBuilt ==
    /\ ev.handler = "OnPlaceMouseUp" /\ ev.arg = DDSP_BUILD_SIGNALS
    /\ ev.in.pt_valid /\ ev.in.sig.one_tile
    /\ Len(ev.submitted) = 1
    /\ ev.submitted[1].c.cmd = "CMD_BUILD_SIGNALS"

\* C26: p1 of the single-signal build command decodes to exactly the values
\* packed: the track in bits 0-2, the fn flag in bit 3, the signal variant in
\* bit 4, the signal type in bits 5-7, the convert flag in bit 8 and the
\* cycle types in bits 9-14, with no other bit set; with the signal picker
\* open these are the picker's variant, type and convert flag, and with the
\* picker closed the variant is semaphore exactly when the year is before
\* semaphore_build_before, the type is the one-way path signal and the
\* convert bit is 0.
C26_SignalP1Lossless ==
    SingleSignalBuilt =>
        /\ ev.submitted[1].c.p1 < Pow2(15)
        /\ GB(ev.submitted[1].c.p1, 0, 3) = ev.in.sig.track
        /\ GB(ev.submitted[1].c.p1, 3, 1) = B(ev.in.sig.fn_mod)
        /\ GB(ev.submitted[1].c.p1, 9, 6) =
              (IF ev.in.sig.cycle_all THEN SIGTYPE_NORMAL ELSE SIGTYPE_PBS)
                  + SIGTYPE_LAST * Pow2(3)
        /\ IF WC_BUILD_SIGNAL \in windows
           THEN /\ GB(ev.submitted[1].c.p1, 4, 1) = _cur_signal_variant
                /\ GB(ev.submitted[1].c.p1, 5, 3) = _cur_signal_type
                /\ GB(ev.submitted[1].c.p1, 8, 1) = B(_convert_signal_button)
           ELSE /\ (GB(ev.submitted[1].c.p1, 4, 1) = SIG_SEMAPHORE)
                       <=> ev.in.sig.semaphore_year
                /\ GB(ev.submitted[1].c.p1, 4, 1) \in {SIG_SEMAPHORE, SIG_ELECTRIC}
                /\ GB(ev.submitted[1].c.p1, 5, 3) = SIGTYPE_PBS_ONEWAY
                /\ GB(ev.submitted[1].c.p1, 8, 1) = 0

\* A semaphore one-way path signal is converted on the last track with the
\* picker open and the fn modifier held.
C26_Witness ==
    /\ SingleSignalBuilt
    /\ WC_BUILD_SIGNAL \in windows
    /\ _cur_signal_variant = SIG_SEMAPHORE /\ _cur_signal_type = SIGTYPE_PBS_ONEWAY
    /\ _convert_signal_button
    /\ ev.in.sig.track = TRACK_RIGHT /\ ev.in.sig.fn_mod /\ ~ev.in.sig.cycle_all

C26_PickerClosed ==
    /\ SingleSignalBuilt
    /\ WC_BUILD_SIGNAL \notin windows
    /\ ev.in.sig.semaphore_year /\ ev.in.sig.track = TRACK_RIGHT

\* The level commands in flight that have the rail placement chained.
ChainedInFlight == {i \in DOMAIN pending : pending[i].then # NoThen}

\* The last handler ran DoAutodirTerraform and both test runs succeeded.
BothTestsSucceeded ==
    ev.handler = "OnPlaceMouseUp" /\ ev.levels.ran /\ ev.levels.l1_ok /\ ev.levels.l2_ok

\* C27: when the test runs of both level commands succeed, both level
\* commands are handed to the command engine, the one of corner 1 before the
\* one of corner 2, and the rail placement is chained to the second only; the
\* rail placement is not attempted while the second command is in flight, and
\* it is attempted once when that command completes: at once when the engine
\* rejects it, else in the step that resolves it.
C27_BothTestsSucceed ==
    /\ [](BothTestsSucceeded =>
          /\ LevelNotes = {1, 2}
          /\ ev.submitted[1].c = ev.levels.c1
          /\ ev.submitted[1].c.then = NoThen
          /\ ev.submitted[2].c.then # NoThen
          /\ [ev.submitted[2].c EXCEPT !.then = NoThen] = ev.levels.c2
          /\ IF ev.submitted[2].accepted
             THEN /\ ev.rail = 0
                  /\ pending = (IF ev.submitted[1].accepted THEN <<ev.submitted[1].c>>
                                ELSE <<>>) \o <<ev.submitted[2].c>>
             ELSE /\ ev.rail = 1
                  /\ ChainedInFlight = {})
    /\ [][/\ ev'.rail <= 1
          /\ Cardinality(ChainedInFlight') <= 1
          /\ (ev'.handler = "Resolve" /\ ChainedInFlight # {}) =>
                IF Head(pending).then # NoThen
                THEN ev'.rail = 1 /\ ChainedInFlight' = {}
                ELSE ev'.rail = 0 /\ Cardinality(ChainedInFlight') = 1]_vars

\* C27 witness: both level commands were in flight, the first has been
\* resolved without a rail placement and the second, with the rail placement
\* chained, is still in flight.
C27_Witness ==
    /\ ev.handler = "Resolve"
    /\ ev.arg.cmd = "CMD_LEVEL_LAND" /\ ev.arg.then = NoThen
    /\ ev.rail = 0
    /\ Len(pending) = 1 /\ ChainedInFlight = {1}

\* The last event is a mouse-up that placed rail in polyline terraform mode.
PolylineTerraformPlacement ==
    /\ ev.handler = "OnPlaceMouseUp" /\ ev.arg = DDSP_PLACE_RAIL /\ ev.in.pt_valid
    /\ WID_RAT_POLYRAIL \in lowered
    /\ ~_remove_button_clicked /\ ~ev.in.rail.estimate
    /\ ev.in.rail.poly_terra

\* C28: every mouse-up placement in polyline terraform mode attempts the
\* rail placement at once or leaves a level command in flight that has the
\* rail placement chained, for every polyline direction.
C28_TerraformArrangesRail ==
    PolylineTerraformPlacement => ev.rail = 1 \/ ChainedInFlight # {}

\* The polyline direction is none of the twelve directions of the switch.
C28_NoDirection ==
    /\ PolylineTerraformPlacement
    /\ ev.in.rail.poly_dir \notin PolyDirs
    /\ ev.rail = 0 /\ pending = <<>> /\ ev.submitted = <<>>

====
